---- MODULE Spec2Model ----
(***************************************************************************)
(* Model of the portfolio script (script.js): the project detail overlay   *)
(* controller, the grid arm-then-open interaction, the keyboard handler     *)
(* with its focus trap, and the sequential image fallback helpers.          *)
(*                                                                          *)
(* Every function of the script is an operator on a record of the script's  *)
(* mutable state (the module-scoped `let` variables plus the DOM attributes *)
(* the functions write); every event listener is one action that applies    *)
(* the listeners of that event in dispatch order.                           *)
(***************************************************************************)
EXTENDS Integers, Sequences, FiniteSets, TLC

\* ---------------------------------------------------------------- bounds
MaxProjects == 2      \* longest parsed projectsData
MaxTiles == 2         \* .grid-item-btn tiles in the page
MaxFooter == 1        \* footer links of the current tab
MaxFocusTimers == 1   \* pending 100ms focus timers of openProject
MaxCandidates == 4    \* longest candidate list of one image slot

\* ---------------------------------------------------------------- DOM elements
\* Every element is a pair <<kind, index>> so that any two can be compared.
Body == <<"body", 0>>
NullElement == <<"null", 0>>
DetachedElement == <<"detached", 0>>
GridItemBtn(i) == <<"grid-item-btn", i>>
FooterProjectLink(i) == <<"footer-project-link", i>>
OverlayClose == <<"overlay-close", 0>>
OverlayNavPrev == <<"overlay-nav-prev", 0>>
OverlayNavNext == <<"overlay-nav-next", 0>>
LangBtnEn == <<"lang-btn", 0>>
LangBtnKr == <<"lang-btn", 1>>

Tiles == 0 .. (MaxTiles - 1)
FooterItems == 0 .. (MaxFooter - 1)
DetailElements == {LangBtnEn, LangBtnKr}
OverlayElements == {OverlayClose, OverlayNavPrev, OverlayNavNext} \cup DetailElements

VARIABLES
  projectsData,          \* parsed records: description_ko and the lookup keys they carry
  overlay,               \* whether #projectOverlay exists in the page
  search,                \* history: the query the page was loaded with (project, autopopup)
  currentProjectIndex,
  isOverlayOpen,
  lastFocusedElement,
  armedGridIndex,
  armedGridResetTimer,   \* -1 for null, else the id of the pending timer
  armTimers,             \* ids of pending 2400ms timers (id = tile it was started for)
  armedClass,            \* tiles carrying the class grid-item--armed
  activeElement,         \* document.activeElement
  rendered,              \* index of the record shown in .project-detail, -1 when empty
  ariaHidden,            \* overlay's aria-hidden attribute: "unset", "true", "false"
  bodyOverlayOpen,       \* body has class overlay-open
  prevDisabled,
  nextDisabled,
  focusTimers,           \* number of pending 100ms focus timers
  rafOpen,               \* index queued by openProjectFromQueryParam, -1 when none
  pendingDefault,        \* default action of a dispatched Tab keydown still to run
  thumb,                 \* one image slot driven by loadThumbnail
  hero,                  \* the hero image driven by attachHeroImageFallback
  detail,                \* content of .project-detail: what the last render and its callbacks put there
  fetches,               \* caption fetches in flight, one per render
  discoveries,           \* slide discovery loops, running and finished
  lazy,                  \* the lazy images of the last render and their loaders
  meta,                  \* the record a render was given and the meta items it built
  lang,                  \* the description block of the last render and its toggle
  lightbox,              \* the image lightbox appended to the body
  modelLoader,           \* the model section of a render and the loader counting it
  last                   \* history: the last event, its input, the state its handler saw

ctl == <<currentProjectIndex, isOverlayOpen, lastFocusedElement, armedGridIndex,
         armedGridResetTimer, armTimers, armedClass, activeElement, rendered,
         ariaHidden, bodyOverlayOpen, prevDisabled, nextDisabled, focusTimers>>
env == <<projectsData, overlay, search>>
img == <<thumb, hero>>
dom == <<detail, fetches, discoveries, lazy, meta, lang, lightbox, modelLoader>>
vars == <<env, ctl, rafOpen, pendingDefault, img, dom, last>>

\* The script's mutable state as one record, so that functions compose.
State ==
  [ currentProjectIndex |-> currentProjectIndex,
    isOverlayOpen |-> isOverlayOpen,
    lastFocusedElement |-> lastFocusedElement,
    armedGridIndex |-> armedGridIndex,
    armedGridResetTimer |-> armedGridResetTimer,
    armTimers |-> armTimers,
    armedClass |-> armedClass,
    activeElement |-> activeElement,
    rendered |-> rendered,
    ariaHidden |-> ariaHidden,
    bodyOverlayOpen |-> bodyOverlayOpen,
    prevDisabled |-> prevDisabled,
    nextDisabled |-> nextDisabled,
    focusTimers |-> focusTimers,
    defaultPrevented |-> FALSE ]

Commit(s) ==
  /\ currentProjectIndex' = s.currentProjectIndex
  /\ isOverlayOpen' = s.isOverlayOpen
  /\ lastFocusedElement' = s.lastFocusedElement
  /\ armedGridIndex' = s.armedGridIndex
  /\ armedGridResetTimer' = s.armedGridResetTimer
  /\ armTimers' = s.armTimers
  /\ armedClass' = s.armedClass
  /\ activeElement' = s.activeElement
  /\ rendered' = s.rendered
  /\ ariaHidden' = s.ariaHidden
  /\ bodyOverlayOpen' = s.bodyOverlayOpen
  /\ prevDisabled' = s.prevDisabled
  /\ nextDisabled' = s.nextDisabled
  /\ focusTimers' = s.focusTimers

\* projectsData[index] of the script (0-based); FALSE when it is undefined.
HasProject(index) == index >= 0 /\ index < Len(projectsData)
ProjectAt(index) == projectsData[index + 1]

\* ---------------------------------------------------------------- deep link
\* A string is a sequence of one-character strings; Null stands for null and
\* undefined (a query parameter or a record field that is not there).
Null == <<"null">>
LowerLetters == {"a", "d", "n"}
Digits == {"0", "1", "2", "3", "4", "5", "6", "7", "8", "9"}

Field(project, name) == IF name \in DOMAIN project THEN project[name] ELSE Null
Falsy(value) == value = Null \/ value = <<>>

toLowerCase(str) ==
  [k \in 1 .. Len(str) |->
     CASE str[k] = "A" -> "a" [] str[k] = "D" -> "d" [] str[k] = "N" -> "n"
       [] OTHER -> str[k]]

RECURSIVE replaceAmpersand(_)
replaceAmpersand(str) ==
  IF str = <<>> THEN <<>>
  ELSE (IF Head(str) = "&" THEN <<"a", "n", "d">> ELSE <<Head(str)>>)
       \o replaceAmpersand(Tail(str))

IsLowerAlnum(c) == c \in LowerLetters \cup Digits
removeNonAlnum(str) == SelectSeq(str, IsLowerAlnum)

\* normalizeProjectKey without toLowerCase().
normalizeProjectKey_keepCase(value) ==
  removeNonAlnum(replaceAmpersand(IF Falsy(value) THEN <<>> ELSE value))

\* String(value || '').toLowerCase().replace(/&/g, 'and').replace(/[^a-z0-9]+/g, '')
normalizeProjectKey(value) ==
  removeNonAlnum(replaceAmpersand(toLowerCase(IF Falsy(value) THEN <<>> ELSE value)))

KeyFields == <<"slug", "display_title", "title", "index">>

\* projectsData.findIndex(...), 0-based, -1 when no record has a matching key.
findProjectIndexFromParam(param) ==
  LET normalizedParam == normalizeProjectKey(param)
      Matches(k) == \E f \in 1 .. Len(KeyFields) :
                      normalizeProjectKey(Field(projectsData[k], KeyFields[f])) = normalizedParam
  IN IF normalizedParam = <<>> THEN -1
     ELSE IF \E k \in 1 .. Len(projectsData) : Matches(k)
       THEN (CHOOSE k \in 1 .. Len(projectsData) :
               Matches(k) /\ \A j \in 1 .. (k - 1) : ~Matches(j)) - 1
       ELSE -1

\* The index openProjectFromQueryParam hands to requestAnimationFrame, -1 when
\* it returns without queueing an open.
openProjectFromQueryParam(params) ==
  LET projectParam == params.project
      forceOpen == params.autopopup = <<"1">>
      projectIndex == findProjectIndexFromParam(projectParam)
  IN IF ~overlay \/ Len(projectsData) = 0 THEN -1
     ELSE IF Falsy(projectParam) /\ ~forceOpen THEN -1
     ELSE IF projectIndex < 0 THEN (IF ~forceOpen THEN -1 ELSE 0)
     ELSE projectIndex

\* ---------------------------------------------------------------- focus
\* overlay.querySelectorAll('button:not([disabled]), [href], [tabindex]...'),
\* in document order: close control, the rendered detail's language buttons,
\* then the prev / next controls.
OverlayFocusable(s) ==
  IF ~overlay THEN <<>>
  ELSE <<OverlayClose>>
       \o (IF HasProject(s.rendered) /\ ProjectAt(s.rendered).description_ko
             THEN <<LangBtnEn, LangBtnKr>> ELSE <<>>)
       \o (IF s.prevDisabled THEN <<>> ELSE <<OverlayNavPrev>>)
       \o (IF s.nextDisabled THEN <<>> ELSE <<OverlayNavNext>>)

\* Footer links bound to openProject exist only on a page with an overlay and a
\* non-empty project list.
FooterLinks == IF overlay /\ Len(projectsData) > 0 THEN FooterItems ELSE {}

RECURSIVE SeqOfRange(_, _, _)
SeqOfRange(f(_), i, n) == IF i >= n THEN <<>> ELSE <<f(i)>> \o SeqOfRange(f, i + 1, n)

\* Sequential focus navigation order of the document: the grid tiles, the
\* footer links, then (while the overlay is shown) the overlay's controls.
TabOrder(s) ==
  SeqOfRange(GridItemBtn, 0, MaxTiles)
  \o (IF FooterLinks = {} THEN <<>> ELSE SeqOfRange(FooterProjectLink, 0, MaxFooter))
  \o (IF s.isOverlayOpen THEN OverlayFocusable(s) ELSE <<>>)

InSeq(e, q) == \E k \in 1 .. Len(q) : q[k] = e
IndexOf(e, q) == CHOOSE k \in 1 .. Len(q) : q[k] = e

\* element.focus(): moves focus when the element is attached and focusable,
\* and does nothing otherwise (body, a removed node, a disabled button).
CanFocus(s, e) ==
  \/ e[1] = "grid-item-btn"
  \/ e[1] = "footer-project-link"
  \/ InSeq(e, OverlayFocusable(s))

Focus(s, e) == IF CanFocus(s, e) THEN [s EXCEPT !.activeElement = e] ELSE s

\* A focused element that is removed or disabled loses focus to the body.
FocusFixup(s) ==
  IF s.activeElement \in OverlayElements /\ ~InSeq(s.activeElement, OverlayFocusable(s))
    THEN [s EXCEPT !.activeElement = Body]
    ELSE s

\* ---------------------------------------------------------------- grid arming
\* clearArmedGridItem that forgets the reference without clearTimeout.
clearArmedGridItem_noClearTimeout(s) ==
  LET s1 == [s EXCEPT !.armedGridResetTimer = -1]
  IN IF s1.armedGridIndex < 0 THEN s1
     ELSE [s1 EXCEPT !.armedClass = @ \ {s1.armedGridIndex},
                     !.armedGridIndex = -1]

clearArmedGridItem(s) ==
  LET s1 == IF s.armedGridResetTimer # -1
              THEN [s EXCEPT !.armTimers = @ \ {s.armedGridResetTimer},
                             !.armedGridResetTimer = -1]
              ELSE s
  IN IF s1.armedGridIndex < 0 THEN s1
     ELSE [s1 EXCEPT !.armedClass = @ \ {s1.armedGridIndex},
                     !.armedGridIndex = -1]

\* armGridItem that starts no auto-disarm timer.
armGridItem_noTimer(s, index) ==
  LET s1 == clearArmedGridItem(s)
  IN IF index \notin Tiles THEN s1
     ELSE [s1 EXCEPT !.armedClass = @ \cup {index}, !.armedGridIndex = index]

armGridItem(s, index) ==
  LET s1 == clearArmedGridItem(s)
  IN IF index \notin Tiles THEN s1
     ELSE [s1 EXCEPT !.armedClass = @ \cup {index},
                     !.armedGridIndex = index,
                     !.armedGridResetTimer = index,
                     !.armTimers = @ \cup {index}]

\* ---------------------------------------------------------------- overlay
\* renderProjectDetail replaces .project-detail's content: the previous
\* render's elements leave the document.
renderProjectDetail(s, index) ==
  IF ~overlay \/ ~HasProject(index) THEN s
  ELSE [s EXCEPT !.rendered = index,
                 !.activeElement = IF @ \in DetailElements THEN Body ELSE @,
                 !.lastFocusedElement = IF @ \in DetailElements THEN DetachedElement ELSE @]

updateNavButtons(s) ==
  FocusFixup([s EXCEPT !.prevDisabled = (s.currentProjectIndex = 0),
                       !.nextDisabled = (s.currentProjectIndex = Len(projectsData) - 1)])

\* openProject without the !projectsData.length half of its guard.
openProject_noLengthGuard(s, index) ==
  IF ~overlay THEN s
  ELSE LET s1 == clearArmedGridItem(s)
           s2 == [s1 EXCEPT !.currentProjectIndex = index,
                            !.lastFocusedElement = s1.activeElement]
           s3 == renderProjectDetail(s2, index)
           s4 == updateNavButtons(s3)
       IN [s4 EXCEPT !.isOverlayOpen = TRUE,
                     !.ariaHidden = "false",
                     !.bodyOverlayOpen = TRUE,
                     !.focusTimers = @ + 1]

openProject(s, index) ==
  IF ~overlay \/ Len(projectsData) = 0 THEN s
  ELSE LET s1 == clearArmedGridItem(s)
           s2 == [s1 EXCEPT !.currentProjectIndex = index,
                            !.lastFocusedElement = s1.activeElement]
           s3 == renderProjectDetail(s2, index)
           s4 == updateNavButtons(s3)
       IN [s4 EXCEPT !.isOverlayOpen = TRUE,
                     !.ariaHidden = "false",
                     !.bodyOverlayOpen = TRUE,
                     !.focusTimers = @ + 1]

\* closeOverlay without its isOverlayOpen guard.
closeOverlay_noGuard(s) ==
  IF ~overlay THEN s
  ELSE LET s1 == [s EXCEPT !.isOverlayOpen = FALSE,
                           !.ariaHidden = "true",
                           !.bodyOverlayOpen = FALSE]
       IN IF s1.lastFocusedElement # NullElement
            THEN Focus(s1, s1.lastFocusedElement)
            ELSE s1

\* closeOverlay that does not restore focus.
closeOverlay_noRestore(s) ==
  IF ~overlay \/ ~s.isOverlayOpen THEN s
  ELSE [s EXCEPT !.isOverlayOpen = FALSE, !.ariaHidden = "true", !.bodyOverlayOpen = FALSE]

\* closeOverlay that leaves the class overlay-open on the body.
closeOverlay_keepsClass(s) ==
  IF ~overlay \/ ~s.isOverlayOpen THEN s
  ELSE LET s1 == [s EXCEPT !.isOverlayOpen = FALSE, !.ariaHidden = "true"]
       IN IF s1.lastFocusedElement # NullElement
            THEN Focus(s1, s1.lastFocusedElement)
            ELSE s1

closeOverlay(s) ==
  IF ~overlay \/ ~s.isOverlayOpen THEN s
  ELSE LET s1 == [s EXCEPT !.isOverlayOpen = FALSE,
                           !.ariaHidden = "true",
                           !.bodyOverlayOpen = FALSE]
       IN IF s1.lastFocusedElement # NullElement
            THEN Focus(s1, s1.lastFocusedElement)
            ELSE s1

goToPrevProject(s) ==
  IF s.currentProjectIndex > 0
    THEN LET s1 == [s EXCEPT !.currentProjectIndex = @ - 1]
         IN updateNavButtons(renderProjectDetail(s1, s1.currentProjectIndex))
    ELSE s

\* goToNextProject wrapping around instead of stopping at the last record.
goToNextProject_wrap(s) ==
  LET s1 == [s EXCEPT !.currentProjectIndex =
                        IF @ < Len(projectsData) - 1 THEN @ + 1 ELSE 0]
  IN updateNavButtons(renderProjectDetail(s1, s1.currentProjectIndex))

goToNextProject(s) ==
  IF s.currentProjectIndex < Len(projectsData) - 1
    THEN LET s1 == [s EXCEPT !.currentProjectIndex = @ + 1]
         IN updateNavButtons(renderProjectDetail(s1, s1.currentProjectIndex))
    ELSE s

\* ---------------------------------------------------------------- keyboard
\* trapFocus over a list that still counts the disabled prev / next buttons.
trapFocus_countsDisabled(s, shiftKey) ==
  LET focusableElements ==
        OverlayFocusable([s EXCEPT !.prevDisabled = FALSE, !.nextDisabled = FALSE])
  IN IF ~overlay \/ Len(focusableElements) = 0 THEN s
     ELSE LET firstElement == focusableElements[1]
              lastElement == focusableElements[Len(focusableElements)]
          IN IF shiftKey
               THEN IF s.activeElement = firstElement
                      THEN [Focus(s, lastElement) EXCEPT !.defaultPrevented = TRUE]
                      ELSE s
               ELSE IF s.activeElement = lastElement
                      THEN [Focus(s, firstElement) EXCEPT !.defaultPrevented = TRUE]
                      ELSE s

trapFocus(s, shiftKey) ==
  LET focusableElements == OverlayFocusable(s)
  IN IF ~overlay \/ Len(focusableElements) = 0 THEN s
     ELSE LET firstElement == focusableElements[1]
              lastElement == focusableElements[Len(focusableElements)]
          IN IF shiftKey
               THEN IF s.activeElement = firstElement
                      THEN [Focus(s, lastElement) EXCEPT !.defaultPrevented = TRUE]
                      ELSE s
               ELSE IF s.activeElement = lastElement
                      THEN [Focus(s, firstElement) EXCEPT !.defaultPrevented = TRUE]
                      ELSE s

\* handleKeyDown without its isOverlayOpen guard.
handleKeyDown_noGuard(s, key, shiftKey) ==
  CASE key = "Escape" -> [closeOverlay_noGuard(s) EXCEPT !.defaultPrevented = TRUE]
    [] key = "ArrowLeft" -> [goToPrevProject(s) EXCEPT !.defaultPrevented = TRUE]
    [] key = "ArrowRight" -> [goToNextProject(s) EXCEPT !.defaultPrevented = TRUE]
    [] key = "Tab" -> trapFocus(s, shiftKey)
    [] OTHER -> s

handleKeyDown(s, key, shiftKey) ==
  IF ~s.isOverlayOpen THEN s
  ELSE CASE key = "Escape" -> [closeOverlay(s) EXCEPT !.defaultPrevented = TRUE]
         [] key = "ArrowLeft" -> [goToPrevProject(s) EXCEPT !.defaultPrevented = TRUE]
         [] key = "ArrowRight" -> [goToNextProject(s) EXCEPT !.defaultPrevented = TRUE]
         [] key = "Tab" -> trapFocus(s, shiftKey)
         [] OTHER -> s

\* The browser's default action of Tab / Shift+Tab: one step of sequential
\* focus navigation; past either end focus leaves the document's elements.
TabDefaultStep(s, shiftKey) ==
  LET order == TabOrder(s)
      n == Len(order)
  IN IF n = 0 THEN s
     ELSE IF InSeq(s.activeElement, order)
       THEN LET k == IndexOf(s.activeElement, order)
                j == IF shiftKey THEN k - 1 ELSE k + 1
            IN [s EXCEPT !.activeElement = IF j < 1 \/ j > n THEN Body ELSE order[j]]
       ELSE [s EXCEPT !.activeElement = IF shiftKey THEN order[n] ELSE order[1]]

\* ---------------------------------------------------------------- listeners
\* click listener that opens at once in either mode.
gridItemClick_alwaysOpen(s, index, desktop) == openProject(clearArmedGridItem(s), index)

\* click listener of grid tile `index`; desktop is isDesktopDirectOpenMode(),
\* evaluated at the click.
gridItemClick(s, index, desktop) ==
  IF desktop THEN openProject(clearArmedGridItem(s), index)
  ELSE IF s.armedGridIndex = index THEN openProject(clearArmedGridItem(s), index)
  ELSE armGridItem(s, index)

\* keydown listener that arms first, as a click in arm-then-open mode does.
gridItemKeyDown_armFirst(s, index) ==
  IF s.armedGridIndex = index THEN openProject(clearArmedGridItem(s), index)
  ELSE armGridItem(s, index)

\* keydown listener of grid tile `index` for Enter / Space.
gridItemKeyDown(s, index) == openProject(clearArmedGridItem(s), index)

\* click listener of the document; inGridItemBtn is e.target.closest('.grid-item-btn').
documentClick(s, inGridItemBtn) == IF inGridItemBtn THEN s ELSE clearArmedGridItem(s)

\* click listener of a footer link whose data-project is `itemIndex`.
footerLinkClick(s, itemIndex) == IF itemIndex < 0 THEN s ELSE openProject(s, itemIndex)

\* callback of the timer started by openProject.
focusCloseBtn(s) == Focus(s, OverlayClose)

\* ---------------------------------------------------------------- image fallback
\* loadThumbnail: urlsToTry[k] says whether candidate k (0-based) loads.
\* index is the argument of the running tryNextUrl, -1 before loadThumbnail.
IdleThumb ==
  [ urlsToTry |-> <<>>, index |-> -1, pending |-> FALSE, backgroundImage |-> -1,
    placeholder |-> FALSE, loaded |-> FALSE, attempts |-> <<>>, failed |-> {}, shown |-> {} ]

tryNextUrl(t, index) ==
  IF index >= Len(t.urlsToTry)
    THEN [t EXCEPT !.index = index, !.pending = FALSE, !.placeholder = TRUE, !.loaded = TRUE]
    ELSE [t EXCEPT !.index = index, !.pending = TRUE, !.attempts = Append(@, index)]

loadThumbnail(urls) ==
  LET t == [IdleThumb EXCEPT !.urlsToTry = urls]
  IN IF Len(urls) = 0 THEN [t EXCEPT !.loaded = TRUE] ELSE tryNextUrl(t, 0)

thumbOnLoad(t) ==
  [t EXCEPT !.pending = FALSE, !.backgroundImage = t.index, !.loaded = TRUE,
            !.shown = @ \cup {t.index}]

\* onerror skipping a candidate.
thumbOnError_skip(t) == tryNextUrl([t EXCEPT !.pending = FALSE, !.failed = @ \cup {t.index}], t.index + 2)

thumbOnError(t) == tryNextUrl([t EXCEPT !.pending = FALSE, !.failed = @ \cup {t.index}], t.index + 1)

\* attachHeroImageFallback: candidate 0 is the src the markup starts with,
\* candidates 1.. are fallbackSources; nextIndex counts the fallbacks taken.
HeroCandidates == 6
IdleHero ==
  [ sources |-> <<>>, src |-> -1, nextIndex |-> 0, pending |-> FALSE, ready |-> FALSE,
    placeholder |-> FALSE, attempts |-> <<>>, failed |-> {}, shown |-> {} ]

attachHeroImageFallback(sources) ==
  [IdleHero EXCEPT !.sources = sources, !.src = 0, !.pending = TRUE, !.attempts = <<0>>]

tryNextSource(h) ==
  IF h.nextIndex >= Len(h.sources) - 1
    THEN [h EXCEPT !.pending = FALSE, !.placeholder = TRUE, !.ready = TRUE, !.src = -1]
    ELSE [h EXCEPT !.src = h.nextIndex + 1, !.nextIndex = @ + 1, !.pending = TRUE,
                   !.attempts = Append(@, h.nextIndex + 1)]

heroOnError(h) == tryNextSource([h EXCEPT !.pending = FALSE, !.failed = @ \cup {h.src}])

heroOnLoad(h) == [h EXCEPT !.pending = FALSE, !.ready = TRUE, !.shown = @ \cup {h.src}]

\* ---------------------------------------------------------------- lazy images
\* The .lazy-image elements of one render. The markup has SubImages sub
\* images, ModelImages model images and InitialSlides slide images; the model
\* follows the ones in DetailImages, each under its own number, so that the
\* counts the loaders slice by keep their values.
SubImages == 20
ModelImages == 30
InitialSlides == 20
WarmupCount == 4
MobileSlideCount == 4
DesktopSlideCount == 12

DetailImages ==
  << [section |-> "sub", n |-> 4], [section |-> "sub", n |-> 5],
     [section |-> "model", n |-> 1], [section |-> "slide", n |-> 4] >>
ImageIds == 1 .. Len(DetailImages)

\* Position (from 1) among container.querySelectorAll('.lazy-image'): the
\* model section comes first when the slug is soft_concrete.
lazyPosition(i, modelFirst) ==
  LET e == DetailImages[i] IN
  CASE e.section = "sub" -> IF modelFirst THEN ModelImages + e.n ELSE e.n
    [] e.section = "model" -> IF modelFirst THEN e.n ELSE SubImages + e.n
    [] OTHER -> SubImages + ModelImages + e.n

\* One <img class="lazy-image">: src is the candidate it was last pointed at
\* ("" before any), pending whether that load is still in flight, complete
\* stands for img.complete && img.naturalWidth > 0, hidden for the figure's
\* display:none. History: failed holds the candidates whose load ended in an
\* error event, by the loader that started the first load.
MarkupImage ==
  [src |-> "", triedWebp |-> FALSE, pending |-> FALSE, complete |-> FALSE,
   lazyLoaded |-> FALSE, hidden |-> FALSE, failed |-> {}, by |-> "none"]

AlreadyLoaded(im) == im.lazyLoaded /\ im.src # "" /\ im.complete

\* img.src = srcJpg || srcWebp: data-src is always present in the markup.
startLoad(im, who) ==
  [im EXCEPT !.src = "jpg", !.pending = TRUE, !.complete = FALSE,
             !.by = IF @ = "none" THEN who ELSE @]

loadLazyImageWithFallback(im, who) ==
  IF AlreadyLoaded(im) THEN im ELSE startLoad(im, who)

\* The IntersectionObserver callback for one intersecting entry.
lazyObserverEntry(im) ==
  IF AlreadyLoaded(im) THEN im ELSE startLoad(im, "observer")

\* waitForModelImages for one model image.
tryLoadImage(im) ==
  IF im.src # "" /\ im.complete
    THEN [im EXCEPT !.lazyLoaded = TRUE]
    ELSE startLoad(im, "model")

\* img.onload and img.onerror as every loader (and the markup) installs them.
imageOnLoad(im) ==
  [im EXCEPT !.pending = FALSE, !.complete = TRUE, !.lazyLoaded = TRUE]

imageOnError(im) ==
  IF ~im.triedWebp
    THEN [im EXCEPT !.triedWebp = TRUE, !.src = "webp", !.failed = @ \cup {im.src}]
    ELSE [im EXCEPT !.pending = FALSE, !.hidden = TRUE, !.failed = @ \cup {im.src}]

\* The gallery of one render: the viewport and browser it runs in, its
\* images, the images the observer still watches, and the callbacks queued.
IdleGallery(mobile, hasObserver, modelFirst) ==
  [rendered |-> FALSE, mobile |-> mobile, hasObserver |-> hasObserver,
   modelFirst |-> modelFirst, images |-> [i \in ImageIds |-> MarkupImage],
   observed |-> {}, warmup |-> FALSE, kickoff |-> FALSE, slideTimers |-> {}]

loadAll(g, ids, who) ==
  [g EXCEPT !.images = [i \in ImageIds |->
     IF i \in ids THEN loadLazyImageWithFallback(@[i], who) ELSE @[i]]]

initDetailLazyLoading(g) ==
  IF ~g.hasObserver
    THEN loadAll(g, ImageIds, "render")
    ELSE [g EXCEPT !.observed = ImageIds]

eagerLoadAllDetailImages(g) == loadAll(g, ImageIds, "render")

warmupDetailImages_all(g, count) == loadAll(g, ImageIds, "warmup")

warmupDetailImages(g, count) ==
  loadAll(g, {i \in ImageIds : lazyPosition(i, g.modelFirst) <= count}, "warmup")

waitForModelImages(g) ==
  [g EXCEPT !.images = [i \in ImageIds |->
     IF DetailImages[i].section = "model" THEN tryLoadImage(@[i]) ELSE @[i]]]

\* loadSlides: one timer for each of the first eagerCount slide images.
loadSlides(g) ==
  LET eagerCount == IF g.mobile THEN MobileSlideCount ELSE DesktopSlideCount IN
  [g EXCEPT !.slideTimers =
     {i \in ImageIds : DetailImages[i].section = "slide" /\ DetailImages[i].n <= eagerCount}]

\* The image part of renderProjectDetail.
renderDetailImages(g) ==
  LET r == [g EXCEPT !.rendered = TRUE] IN
  IF g.mobile
    THEN [initDetailLazyLoading(r) EXCEPT !.warmup = TRUE, !.kickoff = TRUE]
    ELSE eagerLoadAllDetailImages(r)

\* ---------------------------------------------------------------- model images
\* The model section of one render on a viewport of at most 768px, the only
\* one where waitForModelImages runs. The markup has ModelImages figures; the
\* model follows the first MaxModelImages of them. exists[i] is the candidate
\* of image i the server has ("none" when neither), handlers[i] the loader
\* whose onload / onerror the element carries, observed the images the
\* observer still watches; warmup and kickoff are the queued callbacks;
\* loadedCount and errorCount are the locals of waitForModelImages, started
\* whether it ran, adjusted how the grid was last adjusted ("no" before).
MaxModelImages == 3
ModelIds == 1 .. MaxModelImages

IdleModel(hasObserver, modelFirst, exists) ==
  [rendered |-> FALSE, hasObserver |-> hasObserver, modelFirst |-> modelFirst,
   exists |-> exists, images |-> [i \in ModelIds |-> MarkupImage],
   handlers |-> [i \in ModelIds |-> "markup"], observed |-> {},
   warmup |-> FALSE, kickoff |-> FALSE, started |-> FALSE,
   loadedCount |-> 0, errorCount |-> 0, adjusted |-> "no", sectionHidden |-> FALSE]

\* A page whose detail has no model section yet.
NoModelSection == [rendered |-> FALSE]

\* A loader that starts image i installs its own handlers.
takeOver(m, i, im, who) ==
  [m EXCEPT !.images[i] = im,
            !.handlers[i] = IF im = m.images[i] THEN @ ELSE who]

\* loadLazyImageWithFallback on the images in ids.
loadModelImages(m, ids) ==
  [m EXCEPT !.images = [i \in ModelIds |->
              IF i \in ids THEN loadLazyImageWithFallback(@[i], "warmup") ELSE @[i]],
            !.handlers = [i \in ModelIds |->
              IF i \in ids /\ ~AlreadyLoaded(m.images[i]) THEN "lazy" ELSE @[i]]]

\* initDetailLazyLoading, scheduleDetailWarmup and
\* eagerLoadPriorityDetailImages of renderProjectDetail.
renderModelImages(m) ==
  LET r == [m EXCEPT !.rendered = TRUE, !.warmup = TRUE, !.kickoff = TRUE] IN
  IF m.hasObserver THEN [r EXCEPT !.observed = ModelIds]
  ELSE loadModelImages(r, ModelIds)

\* The model images among the first `count` .lazy-image elements.
warmupModelImages(m, count) ==
  loadModelImages(m, {i \in ModelIds : m.modelFirst /\ i <= count})

hideModelSection(m) == [m EXCEPT !.sectionHidden = TRUE]

VisibleUpTo(images, i) == Cardinality({j \in 1 .. i : ~images[j].hidden})

adjustModelImagesGrid(m, loadedCount) ==
  LET showCount == (loadedCount \div 3) * 3
      a == [m EXCEPT !.adjusted = "yes",
                     !.images = [i \in ModelIds |->
                       IF ~@[i].hidden /\ VisibleUpTo(m.images, i) > showCount
                         THEN [@[i] EXCEPT !.hidden = TRUE] ELSE @[i]]]
  IN IF showCount = 0 THEN hideModelSection(a) ELSE a

\* totalImages is the number of figures of the markup the model follows.
checkComplete(m) ==
  IF m.loadedCount + m.errorCount >= MaxModelImages
    THEN adjustModelImagesGrid(m, m.loadedCount) ELSE m

\* The body of waitForModelImages for image i.
waitForModelImage(m, i) ==
  LET im == m.images[i] IN
  IF im.src # "" /\ im.complete
    THEN checkComplete([m EXCEPT !.loadedCount = @ + 1, !.images[i] = tryLoadImage(im)])
    ELSE [m EXCEPT !.images[i] = tryLoadImage(im), !.handlers[i] = "model"]

RECURSIVE waitForEach(_, _)
waitForEach(m, i) ==
  IF i > MaxModelImages THEN m ELSE waitForEach(waitForModelImage(m, i), i + 1)

waitForModelImagesCounting(m) == waitForEach([m EXCEPT !.started = TRUE], 1)

\* The load event of image i, for the handlers it carries.
modelImageOnLoad(m, i) ==
  LET a == [m EXCEPT !.images[i] = imageOnLoad(@)] IN
  IF m.handlers[i] = "model"
    THEN checkComplete([a EXCEPT !.loadedCount = @ + 1])
    ELSE a

\* The error event of image i, for the handlers it carries.
modelImageOnError(m, i) ==
  LET a == [m EXCEPT !.images[i] = imageOnError(@)] IN
  IF m.handlers[i] = "model" /\ m.images[i].triedWebp
    THEN checkComplete([a EXCEPT !.errorCount = @ + 1])
    ELSE a

\* ---------------------------------------------------------------- meta fields
\* The meta items renderProjectDetail builds from a record, as the sequence of
\* [label, value] pairs it appends to metaHTML.
MaxCustomFields == 2   \* longest custom_fields
MaxOrderKeys == 1      \* longest meta_field_order

LowerAlphabet == <<"a", "b", "c", "d", "e", "f", "g", "h", "i", "j", "k", "l", "m",
                   "n", "o", "p", "q", "r", "s", "t", "u", "v", "w", "x", "y", "z">>
UpperAlphabet == <<"A", "B", "C", "D", "E", "F", "G", "H", "I", "J", "K", "L", "M",
                   "N", "O", "P", "Q", "R", "S", "T", "U", "V", "W", "X", "Y", "Z">>

toUpperCase(str) ==
  [k \in 1 .. Len(str) |->
     IF \E j \in 1 .. 26 : LowerAlphabet[j] = str[k]
       THEN UpperAlphabet[CHOOSE j \in 1 .. 26 : LowerAlphabet[j] = str[k]]
       ELSE str[k]]

RECURSIVE trimStart(_)
trimStart(str) ==
  IF str # <<>> /\ Head(str) = " " THEN trimStart(Tail(str)) ELSE str

RECURSIVE trimEnd(_)
trimEnd(str) ==
  IF str # <<>> /\ str[Len(str)] = " " THEN trimEnd(SubSeq(str, 1, Len(str) - 1)) ELSE str

trim(str) == trimEnd(trimStart(str))

startsWith(str, prefix) ==
  Len(str) >= Len(prefix) /\ SubSeq(str, 1, Len(prefix)) = prefix

CustomPrefix == <<"c", "u", "s", "t", "o", "m", ":">>
LabelPrefix == <<"l", "a", "b", "e", "l", ":">>
LegacyTeam == <<"l", "e", "g", "a", "c", "y", "-", "t", "e", "a", "m">>
IndexPrefix == <<"i", "n", "d", "e", "x", "-">>
TEAM == <<"T", "E", "A", "M">>
YEAR == <<"Y", "E", "A", "R">>
MEDIUM == <<"M", "E", "D", "I", "U", "M">>
SERIES == <<"S", "E", "R", "I", "E", "S">>

\* key is the string, name the record field it reads.
baseMetaFields ==
  << [key |-> <<"l", "o", "c", "a", "t", "i", "o", "n">>, name |-> "location",
      label |-> <<"L", "O", "C", "A", "T", "I", "O", "N">>],
     [key |-> <<"d", "u", "r", "a", "t", "i", "o", "n">>, name |-> "duration",
      label |-> <<"D", "U", "R", "A", "T", "I", "O", "N">>],
     [key |-> <<"p", "r", "o", "g", "r", "a", "m">>, name |-> "program",
      label |-> <<"P", "R", "O", "G", "R", "A", "M">>],
     [key |-> <<"s", "t", "u", "d", "i", "o">>, name |-> "studio",
      label |-> <<"S", "T", "U", "D", "I", "O">>] >>
reservedMetaLabels == {baseMetaFields[k].label : k \in 1 .. Len(baseMetaFields)}
baseMetaFieldMapHas(key) == \E k \in 1 .. Len(baseMetaFields) : baseMetaFields[k].key = key
baseMetaFieldMapGet(key) ==
  baseMetaFields[CHOOSE k \in 1 .. Len(baseMetaFields) : baseMetaFields[k].key = key]

DigitString(n) == <<(<<"0", "1", "2", "3", "4", "5", "6", "7", "8", "9">>)[n + 1]>>

normalizedLabel(field) == toUpperCase(trim(field.label))

\* custom_fields.filter(...)
keptCustomField(field) ==
  /\ ~Falsy(field.label)
  /\ ~Falsy(field.value)
  /\ normalizedLabel(field) \notin reservedMetaLabels

\* ... .map((field, index) => ...): index counts the fields kept.
mappedCustomField(field, index) ==
  LET fieldId == IF Falsy(field.id) THEN IndexPrefix \o DigitString(index) ELSE field.id IN
  [id |-> fieldId, token |-> CustomPrefix \o fieldId, label |-> field.label,
   value |-> field.value,
   aliases |-> {fieldId, CustomPrefix \o fieldId,
                IF normalizedLabel(field) # <<>>
                  THEN LabelPrefix \o normalizedLabel(field) ELSE <<>>}]

teamField(project) ==
  [id |-> LegacyTeam, token |-> CustomPrefix \o LegacyTeam, label |-> TEAM,
   value |-> project.team,
   aliases |-> {LegacyTeam, CustomPrefix \o LegacyTeam, LabelPrefix \o TEAM}]

\* customMetaFields once the legacy team field has been pushed.
customMetaFields(project) ==
  LET declared == IF "custom_fields" \in DOMAIN project THEN project.custom_fields ELSE <<>>
      kept == SelectSeq(declared, keptCustomField)
      mapped == [k \in 1 .. Len(kept) |-> mappedCustomField(kept[k], k - 1)]
  IN IF ~Falsy(Field(project, "team"))
        /\ ~\E k \in 1 .. Len(mapped) : toUpperCase(trim(mapped[k].label)) = TEAM
       THEN Append(mapped, teamField(project))
       ELSE mapped

\* customMetaFieldMap: a Map keeps the last entry set under a key.
customMetaFieldMapHas(fields, key) == \E k \in 1 .. Len(fields) : fields[k].token = key
customMetaFieldMapGet(fields, key) ==
  LET at == {k \in 1 .. Len(fields) : fields[k].token = key}
  IN fields[CHOOSE k \in at : \A j \in at : j <= k]

\* resolveCustomMetaField: the field a key of meta_field_order names; NoField
\* stands for its null.
NoField == [id |-> Null, token |-> Null, label |-> Null, value |-> Null, aliases |-> {}]
resolveCustomMetaField(fields, key) ==
  LET normalizedKey == trim(IF Falsy(key) THEN <<>> ELSE key)
      prefixedKey == IF startsWith(normalizedKey, CustomPrefix)
                       THEN normalizedKey ELSE CustomPrefix \o normalizedKey
      normalizedLabelKey ==
        IF startsWith(normalizedKey, LabelPrefix)
          THEN LabelPrefix \o toUpperCase(SubSeq(normalizedKey, 7, Len(normalizedKey)))
          ELSE LabelPrefix \o toUpperCase(normalizedKey)
      found == {k \in 1 .. Len(fields) :
                  {normalizedKey, prefixedKey, normalizedLabelKey} \cap fields[k].aliases # {}}
  IN CASE normalizedKey = <<>> -> NoField
       [] customMetaFieldMapHas(fields, normalizedKey) ->
            customMetaFieldMapGet(fields, normalizedKey)
       [] customMetaFieldMapHas(fields, prefixedKey) ->
            customMetaFieldMapGet(fields, prefixedKey)
       [] found # {} -> fields[CHOOSE k \in found : \A j \in found : k <= j]
       [] OTHER -> NoField

Includes(seq, x) == \E k \in 1 .. Len(seq) : seq[k] = x
PushNew(seq, x) == IF Includes(seq, x) THEN seq ELSE Append(seq, x)

\* project.meta_field_order.forEach(...) over the keys not yet visited.
RECURSIVE orderFromProject(_, _, _)
orderFromProject(fields, keys, ordered) ==
  IF keys = <<>> THEN ordered
  ELSE LET key == Head(keys)
           customField == resolveCustomMetaField(fields, key)
           normalizedKey == IF ~baseMetaFieldMapHas(key) /\ customField # NoField
                              THEN customField.token ELSE key
       IN orderFromProject(fields, Tail(keys),
            IF baseMetaFieldMapHas(normalizedKey) \/ customMetaFieldMapHas(fields, normalizedKey)
              THEN PushNew(ordered, normalizedKey) ELSE ordered)

RECURSIVE pushAll(_, _)
pushAll(ordered, keys) ==
  IF keys = <<>> THEN ordered ELSE pushAll(PushNew(ordered, Head(keys)), Tail(keys))

orderedMetaKeys_customFirst(project) ==
  LET fields == customMetaFields(project) IN
  pushAll(<<>>, [k \in 1 .. Len(fields) |-> fields[k].token]
                \o [k \in 1 .. Len(baseMetaFields) |-> baseMetaFields[k].key])

orderedMetaKeys(project) ==
  LET fields == customMetaFields(project)
      declared == IF "meta_field_order" \in DOMAIN project
                    THEN project.meta_field_order ELSE <<>>
      fromProject == orderFromProject(fields, declared, <<>>)
      withBase == pushAll(fromProject, [k \in 1 .. Len(baseMetaFields) |-> baseMetaFields[k].key])
  IN pushAll(withBase, [k \in 1 .. Len(fields) |-> fields[k].token])

\* The item one key of orderedMetaKeys adds to metaHTML, <<>> when none.
metaItemOf(project, fields, key) ==
  IF baseMetaFieldMapHas(key)
    THEN LET baseField == baseMetaFieldMapGet(key) IN
         IF Falsy(Field(project, baseField.name)) THEN <<>>
         ELSE << [label |-> baseField.label, value |-> project[baseField.name]] >>
    ELSE IF ~customMetaFieldMapHas(fields, key)
              \/ Falsy(customMetaFieldMapGet(fields, key).value) THEN <<>>
         ELSE LET customField == customMetaFieldMapGet(fields, key) IN
              << [label |-> customField.label, value |-> customField.value] >>

RECURSIVE metaItemsOf(_, _, _)
metaItemsOf(project, fields, keys) ==
  IF keys = <<>> THEN <<>>
  ELSE metaItemOf(project, fields, Head(keys)) \o metaItemsOf(project, fields, Tail(keys))

plainItem(project, name, label) ==
  IF Falsy(Field(project, name)) THEN <<>> ELSE << [label |-> label, value |-> project[name]] >>

metaHTML(project) ==
  metaItemsOf(project, customMetaFields(project), orderedMetaKeys(project))
  \o plainItem(project, "year", YEAR)
  \o plainItem(project, "medium", MEDIUM)
  \o plainItem(project, "series", SERIES)

IdleMeta == [done |-> FALSE, project |-> [title |-> <<>>], items |-> <<>>]

\* ---------------------------------------------------------------- language toggle
\* The description block of one render: whether the .lang-toggle exists, the
\* style.display of .description-en and .description-ko ("absent" when the
\* element is not in the markup), the button carrying lang-btn--active
\* ("none" without a toggle). History: fresh is TRUE until a toggle button of
\* this render is clicked.
IdleLang == [toggle |-> FALSE, descEn |-> "absent", descKo |-> "absent",
             active |-> "none", fresh |-> TRUE]

\* The header and description markup of renderProjectDetail.
renderDescription(project) ==
  [toggle |-> project.description_ko,
   descEn |-> IF project.description THEN "" ELSE "absent",
   descKo |-> IF project.description_ko THEN "none" ELSE "absent",
   active |-> IF project.description_ko THEN "en" ELSE "none",
   fresh |-> TRUE]

\* A click listener that shows one language at a time.
langBtnClick_swaps(g, btnLang) ==
  [g EXCEPT !.active = btnLang, !.fresh = FALSE,
            !.descEn = IF @ = "absent" THEN @ ELSE IF btnLang = "en" THEN "" ELSE "none",
            !.descKo = IF @ = "absent" THEN @ ELSE IF btnLang = "en" THEN "none" ELSE ""]

\* The click listener setupLangToggle binds to the button with data-lang = btnLang.
langBtnClick(g, btnLang) ==
  [g EXCEPT !.active = btnLang, !.fresh = FALSE,
            !.descEn = IF @ = "absent" THEN @ ELSE "",
            !.descKo = IF @ = "absent" THEN @ ELSE IF btnLang = "en" THEN "none" ELSE ""]

\* ---------------------------------------------------------------- lightbox
\* The image lightbox: whether createLightbox has run, whether the element
\* has the class "active", and whether currentZoom is above 1. History:
\* closedBy names what removed "active" last.
NoLightbox == [created |-> FALSE, active |-> FALSE, zoomed |-> FALSE, closedBy |-> "none"]

resetZoom(lb) == [lb EXCEPT !.zoomed = FALSE]

openLightbox(lb) == [lb EXCEPT !.created = TRUE, !.active = TRUE, !.zoomed = FALSE]

closeLightbox(lb, by) ==
  IF ~lb.created THEN lb
  ELSE [resetZoom(lb) EXCEPT !.active = FALSE, !.closedBy = IF lb.active THEN by ELSE @]

\* Click listeners of the lightbox: the close button, or the backdrop and
\* the image.
lightboxClick(lb, onCloseBtn) ==
  IF onCloseBtn THEN closeLightbox(lb, "click")
  ELSE IF ~lb.zoomed THEN closeLightbox(lb, "click") ELSE resetZoom(lb)

\* A lightbox key listener that leaves Escape to the overlay.
handleLightboxKeydown_ignoresEscape(lb, key) == lb

handleLightboxKeydown(lb, key) ==
  IF ~lb.created \/ ~lb.active THEN lb
  ELSE IF key = "Escape" THEN closeLightbox(lb, "Escape") ELSE lb

\* ---------------------------------------------------------------- detail content
\* What the model keeps of .project-detail: gen counts the renders (each
\* assignment to detail.innerHTML makes a new subtree), project is the record
\* the content was rendered from, subCaption the project whose caption map
\* filled data-caption of the first sub image (-1: none), slides the figures
\* appended to .project-images--extra, connected whether the element is in
\* the document.
MaxRenders == 2        \* renders followed
MaxExtraSlides == 2    \* slides a project can have past the initial ones

IdleDetail == [gen |-> 0, project |-> -1, connected |-> TRUE, subCaption |-> -1, slides |-> <<>>]

\* A page before any render: no gallery, no model section.
NoGallery == [rendered |-> FALSE]

InitDom ==
  /\ detail = IdleDetail /\ fetches = {} /\ discoveries = {}
  /\ lazy = NoGallery
  /\ meta = IdleMeta
  /\ lang = IdleLang /\ lightbox = NoLightbox
  /\ modelLoader = NoModelSection

\* A caption map as far as the model reads it: whether it has the key of the
\* first sub image (sub_01) and whether it has the keys of the slides (slide_N).
CaptionMaps == [sub : BOOLEAN, slide : BOOLEAN]

\* renderProjectDetail on the content: detail.innerHTML = ..., then
\* loadCaptions(basePath) is started.
renderDetailContent(d, index) ==
  [d EXCEPT !.gen = @ + 1, !.project = index, !.subCaption = -1, !.slides = <<>>]

\* setupCaptionObservers(container, captions), captions being the map of
\* project p: data-caption of every image of the container that has a key.
setupCaptionObservers(d, p, captions) ==
  [d EXCEPT !.subCaption = IF captions.sub THEN p ELSE @,
            !.slides = [k \in 1 .. Len(@) |->
                          IF captions.slide THEN [@[k] EXCEPT !.caption = p] ELSE @[k]]]

\* discoverExtraSlideImages up to its first await: the loop it starts, with
\* the .project-images--extra it found (named by the render that made it).
startDiscovery(d, g, p, captions) ==
  LET existingSlides == InitialSlides + Len(d.slides)
      nextIndex == IF existingSlides + 1 > 21 THEN existingSlides + 1 ELSE 21
  IN [gen |-> g, project |-> p, container |-> d.gen, captions |-> captions,
      nextIndex |-> nextIndex, running |-> d.connected,
      probed |-> IF d.connected THEN <<nextIndex>> ELSE <<>>,
      results |-> <<>>, appended |-> <<>>]

\* The loop of discoverExtraSlideImages from the resolution of its pending
\* preloadImageSequence to its next await or its break.
probeResolved(t, ok, connected) ==
  IF ~ok \/ ~connected THEN [t EXCEPT !.results = Append(@, ok), !.running = FALSE]
  ELSE [t EXCEPT !.results = Append(@, ok),
                 !.appended = Append(@, t.nextIndex),
                 !.nextIndex = @ + 1,
                 !.probed = Append(@, t.nextIndex + 1)]

\* slideContainer.appendChild(figure): the figure shows only if the container
\* is the one in the document.
appendSlide(d, t) ==
  IF t.container # d.gen THEN d
  ELSE [d EXCEPT !.slides = Append(@, [project |-> t.project, index |-> t.nextIndex,
                                       caption |-> IF t.captions.slide THEN t.project ELSE -1])]

\* ---------------------------------------------------------------- initial state
ProjectRecords == [description_ko : BOOLEAN]
SeqsUpTo(S, n) == UNION {[1 .. k -> S] : k \in 0 .. n}

InitState ==
  [ currentProjectIndex |-> 0,
    isOverlayOpen |-> FALSE,
    lastFocusedElement |-> NullElement,
    armedGridIndex |-> -1,
    armedGridResetTimer |-> -1,
    armTimers |-> {},
    armedClass |-> {},
    activeElement |-> Body,
    rendered |-> -1,
    ariaHidden |-> "unset",
    bodyOverlayOpen |-> FALSE,
    prevDisabled |-> FALSE,
    nextDisabled |-> FALSE,
    focusTimers |-> 0,
    defaultPrevented |-> FALSE ]

InitCtl ==
  /\ currentProjectIndex = 0
  /\ isOverlayOpen = FALSE
  /\ lastFocusedElement = NullElement
  /\ armedGridIndex = -1
  /\ armedGridResetTimer = -1
  /\ armTimers = {}
  /\ armedClass = {}
  /\ activeElement = Body
  /\ rendered = -1
  /\ ariaHidden = "unset"
  /\ bodyOverlayOpen = FALSE
  /\ prevDisabled = FALSE
  /\ nextDisabled = FALSE
  /\ focusTimers = 0
  /\ pendingDefault = "none"
  /\ last = [op |-> "init", arg |-> -1, opened |-> -1, pre |-> InitState,
             prevented |-> FALSE, afterOpen |-> FALSE, afterArmTimer |-> -1]

\* The k-th record's index field: "1", "2", ...
IndexKey(k) == <<(<<"1", "2", "3", "4", "5", "6", "7", "8", "9">>)[k]>>
WithIndexKeys(q) ==
  [k \in 1 .. Len(q) |-> [description_ko |-> q[k].description_ko, index |-> IndexKey(k)]]

\* init(): the payload is parsed (a payload that fails to parse leaves the
\* empty list) and openProjectFromQueryParam queues at most one open. Here the
\* page is loaded without a query, with project=<an index field> or with
\* autopopup=1, and the query, which nothing reads after init(), is not recorded.
Unrecorded == <<"unrecorded">>

\* The embedded payload: text that JSON.parse accepts, with the list it
\* yields, or text on which it throws.
Payloads ==
  {[parses |-> FALSE, value |-> <<>>]}
  \cup {[parses |-> TRUE, value |-> WithIndexKeys(q)] : q \in SeqsUpTo(ProjectRecords, MaxProjects)}

\* let projectsData = []; try { projectsData = JSON.parse(jsonText) } catch (e) { warn }
parseProjectsData(payload) == IF payload.parses THEN payload.value ELSE <<>>

Init ==
  /\ projectsData \in {parseProjectsData(payload) : payload \in Payloads}
  /\ overlay \in BOOLEAN
  /\ \E p \in {Null} \cup {IndexKey(k) : k \in 1 .. MaxProjects}, a \in {Null, <<"1">>} :
       rafOpen = openProjectFromQueryParam([project |-> p, autopopup |-> a])
  /\ search = Unrecorded
  /\ InitCtl
  /\ thumb = IdleThumb
  /\ hero = IdleHero
  /\ InitDom

\* ---------------------------------------------------------------- events
\* History of the last event: its name and input, the index its listeners
\* handed to openProject (-1 if they did not call it), the state they started
\* from, whether they called preventDefault, whether the event before it
\* opened the overlay on an existing record, and, for a click on a tile, the
\* tile whose auto-disarm timer fired just before it (-1 if none did).
Record(op, arg, opened, s0, s) ==
  last' = [op |-> op, arg |-> arg, opened |-> opened, pre |-> s0,
           prevented |-> s.defaultPrevented,
           afterOpen |-> overlay /\ HasProject(last.opened),
           afterArmTimer |-> IF op = "gridClick" /\ last.op = "armTimer"
                              THEN last.arg ELSE -1]

Idle == rafOpen = -1 /\ pendingDefault = "none"

Step(op, arg, opened, s0, s) ==
  /\ s.focusTimers <= MaxFocusTimers
  /\ Commit(s)
  /\ Record(op, arg, opened, s0, s)
  /\ UNCHANGED <<env, rafOpen, pendingDefault, img, dom>>

\* A pointer click on a button or link focuses it before its listeners run.
\* The event is named "gridClickDirect" in direct-open mode and "gridClick" in
\* arm-then-open mode.
GridClick(index, desktop) ==
  /\ Idle
  /\ LET s0 == Focus(State, GridItemBtn(index))
         s == documentClick(gridItemClick(s0, index, desktop), TRUE)
     IN Step(IF desktop THEN "gridClickDirect" ELSE "gridClick", index,
             IF desktop \/ s0.armedGridIndex = index THEN index ELSE -1, s0, s)

GridKeyDown(index) ==
  /\ Idle
  /\ activeElement = GridItemBtn(index)
  /\ LET s0 == State
         s == handleKeyDown(gridItemKeyDown(s0, index), "Enter", FALSE)
     IN Step("gridKey", index, index, s0, s)

DocumentClick ==
  /\ Idle
  /\ LET s0 == State
     IN Step("documentClick", -1, -1, s0, documentClick(s0, FALSE))

FooterClick(itemIndex) ==
  /\ Idle
  /\ itemIndex \in FooterLinks
  /\ LET s0 == Focus(State, FooterProjectLink(itemIndex))
         s == documentClick(footerLinkClick(s0, itemIndex), FALSE)
     IN Step("footerClick", itemIndex, itemIndex, s0, s)

CloseClick(backdrop) ==
  /\ Idle
  /\ overlay
  /\ LET s0 == IF backdrop THEN State ELSE Focus(State, OverlayClose)
         s == documentClick(closeOverlay(s0), FALSE)
     IN Step("close", IF backdrop THEN 1 ELSE 0, -1, s0, s)

PrevClick ==
  /\ Idle
  /\ overlay
  /\ ~prevDisabled
  /\ LET s0 == Focus(State, OverlayNavPrev)
         s == documentClick(goToPrevProject(s0), FALSE)
     IN Step("prev", -1, -1, s0, s)

NextClick ==
  /\ Idle
  /\ overlay
  /\ ~nextDisabled
  /\ LET s0 == Focus(State, OverlayNavNext)
         s == documentClick(goToNextProject(s0), FALSE)
     IN Step("next", -1, -1, s0, s)

KeyArg(key, shiftKey) ==
  CASE key = "Escape" -> 0 [] key = "ArrowLeft" -> 1 [] key = "ArrowRight" -> 2
    [] key = "Tab" /\ ~shiftKey -> 3 [] OTHER -> 4

\* keydown listener of the document. A Tab the listener did not prevent is
\* followed at once by the browser's focus step (TabDefault).
KeyDown(key, shiftKey) ==
  /\ Idle
  /\ LET s0 == State
         s == handleKeyDown(s0, key, shiftKey)
     IN /\ Commit(s)
        /\ Record("keydown", KeyArg(key, shiftKey), -1, s0, s)
        /\ pendingDefault' = IF key = "Tab" /\ ~s.defaultPrevented
                               THEN (IF shiftKey THEN "shiftTab" ELSE "tab")
                               ELSE "none"
        /\ UNCHANGED <<env, rafOpen, img, dom>>

TabDefault ==
  /\ pendingDefault # "none"
  /\ LET s0 == State
         s == TabDefaultStep(s0, pendingDefault = "shiftTab")
     IN /\ Commit(s)
        /\ Record("tabDefault", IF pendingDefault = "shiftTab" THEN 4 ELSE 3, -1, s0, s)
        /\ pendingDefault' = "none"
        /\ UNCHANGED <<env, rafOpen, img, dom>>

FocusTimerFire ==
  /\ pendingDefault = "none"
  /\ focusTimers > 0
  /\ LET s0 == State
         s == focusCloseBtn([s0 EXCEPT !.focusTimers = @ - 1])
     IN Step("focusTimer", -1, -1, s0, s)

ArmTimerFire(id) ==
  /\ pendingDefault = "none"
  /\ id \in armTimers
  /\ LET s0 == State
         s == clearArmedGridItem([s0 EXCEPT !.armTimers = @ \ {id}])
     IN Step("armTimer", id, -1, s0, s)

\* requestAnimationFrame callback queued by openProjectFromQueryParam; it runs
\* in the page's first frame, before any input is dispatched.
DeepLinkFire ==
  /\ rafOpen # -1
  /\ LET s0 == State
         s == openProject(s0, rafOpen)
     IN /\ Commit(s)
        /\ Record("deepLink", rafOpen, rafOpen, s0, s)
        /\ rafOpen' = -1
        /\ UNCHANGED <<env, pendingDefault, img, dom>>

Next ==
  \/ \E index \in Tiles, desktop \in BOOLEAN : GridClick(index, desktop)
  \/ \E index \in Tiles : GridKeyDown(index)
  \/ DocumentClick
  \/ \E itemIndex \in FooterItems : FooterClick(itemIndex)
  \/ \E backdrop \in BOOLEAN : CloseClick(backdrop)
  \/ PrevClick
  \/ NextClick
  \/ \E key \in {"Escape", "ArrowLeft", "ArrowRight", "Tab"} :
       \E shiftKey \in (IF key = "Tab" THEN BOOLEAN ELSE {FALSE}) : KeyDown(key, shiftKey)
  \/ TabDefault
  \/ FocusTimerFire
  \/ \E id \in Tiles : ArmTimerFire(id)
  \/ DeepLinkFire

Spec == Init /\ [][Next]_vars

\* ---------------------------------------------------------------- image slots
\* One grid thumbnail and one hero image, each with a candidate list whose
\* outcomes (loads / fails) are fixed by the server's files.
InitImg ==
  /\ projectsData = <<>>
  /\ overlay = FALSE
  /\ search = Unrecorded
  /\ rafOpen = -1
  /\ InitCtl
  /\ \E urls \in SeqsUpTo(BOOLEAN, MaxCandidates) : thumb = loadThumbnail(urls)
  /\ \E sources \in [1 .. HeroCandidates -> BOOLEAN] : hero = attachHeroImageFallback(sources)
  /\ InitDom

ThumbLoad ==
  /\ thumb.pending
  /\ thumb.urlsToTry[thumb.index + 1]
  /\ thumb' = thumbOnLoad(thumb)
  /\ UNCHANGED <<env, ctl, rafOpen, pendingDefault, hero, dom, last>>

ThumbError ==
  /\ thumb.pending
  /\ ~thumb.urlsToTry[thumb.index + 1]
  /\ thumb' = thumbOnError(thumb)
  /\ UNCHANGED <<env, ctl, rafOpen, pendingDefault, hero, dom, last>>

HeroLoad ==
  /\ hero.pending
  /\ hero.sources[hero.src + 1]
  /\ hero' = heroOnLoad(hero)
  /\ UNCHANGED <<env, ctl, rafOpen, pendingDefault, thumb, dom, last>>

HeroError ==
  /\ hero.pending
  /\ ~hero.sources[hero.src + 1]
  /\ hero' = heroOnError(hero)
  /\ UNCHANGED <<env, ctl, rafOpen, pendingDefault, thumb, dom, last>>

NextImg == ThumbLoad \/ ThumbError \/ HeroLoad \/ HeroError

SpecImg == InitImg /\ [][NextImg]_vars

\* ---------------------------------------------------------------- page load
\* The page loaded with any of a few query strings over records that carry one
\* lookup key each, all in the same field.
KeyStrings ==
  { <<>>, <<"a">>, <<"A">>, <<"-">>, <<"&">>, <<"a", "n", "d">>, <<"A", "-">>, <<"1">> }

InitLink ==
  /\ overlay = TRUE
  /\ \E f \in 1 .. Len(KeyFields) :
       projectsData \in SeqsUpTo({[description_ko |-> FALSE] @@ (KeyFields[f] :> v) :
                                    v \in KeyStrings}, MaxProjects)
  /\ search \in [project : KeyStrings \cup {Null}, autopopup : {Null, <<"1">>, <<"0">>}]
  /\ rafOpen = openProjectFromQueryParam(search)
  /\ InitCtl
  /\ thumb = IdleThumb
  /\ hero = IdleHero
  /\ InitDom

NextLink == DeepLinkFire

SpecLink == InitLink /\ [][NextLink]_vars

\* ---------------------------------------------------------------- captions and slides
\* A page with the overlay and MaxProjects records, followed through the
\* renders of its detail and the callbacks they start. A caption fetch
\* resolves to any map (the empty one when it fails), a probe to either
\* outcome: what comes back is the server's and the network's choice.
InitCap ==
  /\ projectsData = [k \in 1 .. MaxProjects |-> [description_ko |-> FALSE]]
  /\ overlay = TRUE
  /\ search = Unrecorded
  /\ rafOpen = -1
  /\ InitCtl
  /\ thumb = IdleThumb
  /\ hero = IdleHero
  /\ InitDom

\* The listeners' effect on the controller is s; when they rendered record
\* `target`, the content is replaced and its caption fetch starts.
CapStep(s, didRender, target) ==
  /\ s.focusTimers <= MaxFocusTimers
  /\ Commit(s)
  /\ IF didRender
       THEN /\ detail.gen < MaxRenders
            /\ detail' = renderDetailContent(detail, target)
            /\ fetches' = fetches \cup {[gen |-> detail.gen + 1, project |-> target]}
       ELSE UNCHANGED <<detail, fetches>>
  /\ UNCHANGED <<env, rafOpen, pendingDefault, img, discoveries, lazy, meta, lang, lightbox, modelLoader, last>>

CapOpen(index) ==
  LET s0 == Focus(State, GridItemBtn(index))
  IN CapStep(documentClick(gridItemClick(s0, index, TRUE), TRUE),
             overlay /\ Len(projectsData) > 0 /\ HasProject(index), index)

CapNext ==
  /\ ~nextDisabled
  /\ LET s0 == Focus(State, OverlayNavNext)
     IN CapStep(documentClick(goToNextProject(s0), FALSE),
                s0.currentProjectIndex < Len(projectsData) - 1
                  /\ HasProject(s0.currentProjectIndex + 1),
                s0.currentProjectIndex + 1)

CapPrev ==
  /\ ~prevDisabled
  /\ LET s0 == Focus(State, OverlayNavPrev)
     IN CapStep(documentClick(goToPrevProject(s0), FALSE),
                s0.currentProjectIndex > 0 /\ HasProject(s0.currentProjectIndex - 1),
                s0.currentProjectIndex - 1)

\* A callback that treats the empty map as an error and closes the overlay.
CaptionsArrive_closesOnFailure(f, captions) ==
  /\ f \in fetches
  /\ fetches' = fetches \ {f}
  /\ detail' = IF captions.sub \/ captions.slide
                 THEN setupCaptionObservers(detail, f.project, captions)
                 ELSE detail
  /\ discoveries' = discoveries \cup {startDiscovery(detail, f.gen, f.project, captions)}
  /\ Commit(IF captions.sub \/ captions.slide THEN State ELSE closeOverlay(State))
  /\ UNCHANGED <<env, rafOpen, pendingDefault, img, lazy, meta, lang, lightbox, modelLoader, last>>

\* loadCaptions(basePath).then(captions => ...) of the render f.gen: it works
\* on `detail`, the one .project-detail element, whatever it now contains.
CaptionsArrive(f, captions) ==
  /\ f \in fetches
  /\ fetches' = fetches \ {f}
  /\ detail' = IF captions.sub \/ captions.slide
                 THEN setupCaptionObservers(detail, f.project, captions)
                 ELSE detail
  /\ discoveries' = discoveries \cup {startDiscovery(detail, f.gen, f.project, captions)}
  /\ UNCHANGED <<env, ctl, rafOpen, pendingDefault, img, lazy, meta, lang, lightbox, modelLoader, last>>

\* A probe whose success is stored as a new record of projectsData.
ProbeDone_pushesRecord(t, ok) ==
  /\ t \in discoveries
  /\ t.running
  /\ ok => t.nextIndex <= InitialSlides + MaxExtraSlides
  /\ discoveries' = (discoveries \ {t}) \cup {probeResolved(t, ok, detail.connected)}
  /\ projectsData' = IF ok THEN Append(projectsData, [description_ko |-> FALSE]) ELSE projectsData
  /\ UNCHANGED <<overlay, search, ctl, rafOpen, pendingDefault, img, detail, fetches, lazy, meta, lang, lightbox, modelLoader, last>>

\* Resolution of the preloadImageSequence a discovery loop awaits.
ProbeDone(t, ok) ==
  /\ t \in discoveries
  /\ t.running
  /\ ok => t.nextIndex <= InitialSlides + MaxExtraSlides
  /\ discoveries' = (discoveries \ {t}) \cup {probeResolved(t, ok, detail.connected)}
  /\ detail' = IF ok /\ detail.connected THEN appendSlide(detail, t) ELSE detail
  /\ UNCHANGED <<env, ctl, rafOpen, pendingDefault, img, fetches, lazy, meta, lang, lightbox, modelLoader, last>>

\* .project-detail leaves the document. Nothing in the script does this; it is
\* the page's doing, and the one event container.isConnected can observe.
Disconnect ==
  /\ detail.connected
  /\ detail.gen > 0
  /\ detail' = [detail EXCEPT !.connected = FALSE]
  /\ UNCHANGED <<env, ctl, rafOpen, pendingDefault, img, fetches, discoveries, lazy, meta, lang, lightbox, modelLoader, last>>

NextCap ==
  \/ \E index \in 0 .. (MaxProjects - 1) : CapOpen(index)
  \/ CapNext
  \/ CapPrev
  \/ \E f \in fetches, captions \in CaptionMaps : CaptionsArrive(f, captions)
  \/ \E t \in discoveries, ok \in BOOLEAN : ProbeDone(t, ok)
  \/ Disconnect

SpecCap == InitCap /\ [][NextCap]_vars

\* ---------------------------------------------------------------- lazy loading
\* One render of a project's gallery, in either viewport, with or without
\* IntersectionObserver, for either markup order, followed through the
\* callbacks it queues. Which load ends in load and which in error, when the
\* timers run and when an image comes near the viewport is the environment's
\* choice.
InitLazy ==
  /\ projectsData = [k \in 1 .. 1 |-> [description_ko |-> FALSE]]
  /\ overlay = TRUE
  /\ search = Unrecorded
  /\ rafOpen = -1
  /\ InitCtl
  /\ thumb = IdleThumb
  /\ hero = IdleHero
  /\ detail = IdleDetail /\ fetches = {} /\ discoveries = {} /\ meta = IdleMeta /\ lang = IdleLang /\ lightbox = NoLightbox
  /\ modelLoader = NoModelSection
  /\ \E mobile \in BOOLEAN, hasObserver \in BOOLEAN, modelFirst \in BOOLEAN :
       lazy = IdleGallery(mobile, hasObserver, modelFirst)

LazyStep(g) ==
  /\ lazy' = g
  /\ UNCHANGED <<env, ctl, rafOpen, pendingDefault, img, detail, fetches, discoveries, meta, lang, lightbox, modelLoader, last>>

RenderImages ==
  /\ ~lazy.rendered
  /\ LazyStep(renderDetailImages(lazy))

\* An observed image is reported intersecting the overlay's scroll root; a
\* figure with display:none has no box and never is.
ObserverReport(i) ==
  /\ i \in lazy.observed
  /\ ~lazy.images[i].hidden
  /\ LazyStep([lazy EXCEPT !.images[i] = lazyObserverEntry(@), !.observed = @ \ {i}])

\* requestIdleCallback (or the 180ms timer) runs runWarmup.
IdleWarmup ==
  /\ lazy.warmup
  /\ LazyStep([warmupDetailImages(lazy, WarmupCount) EXCEPT !.warmup = FALSE])

\* The animation frame and its 40ms timer have passed: kickoff runs.
Kickoff ==
  /\ lazy.kickoff
  /\ LazyStep([loadSlides(waitForModelImages(lazy)) EXCEPT !.kickoff = FALSE])

SlideTimer(i) ==
  /\ i \in lazy.slideTimers
  /\ LazyStep([lazy EXCEPT !.images[i] = loadLazyImageWithFallback(@, "priority"),
                           !.slideTimers = @ \ {i}])

ImageLoad(i) ==
  /\ lazy.images[i].pending
  /\ LazyStep([lazy EXCEPT !.images[i] = imageOnLoad(@)])

ImageError(i) ==
  /\ lazy.images[i].pending
  /\ LazyStep([lazy EXCEPT !.images[i] = imageOnError(@)])

NextLazy ==
  \/ RenderImages
  \/ \E i \in ImageIds : ObserverReport(i)
  \/ IdleWarmup
  \/ Kickoff
  \/ \E i \in ImageIds : SlideTimer(i)
  \/ \E i \in ImageIds : ImageLoad(i)
  \/ \E i \in ImageIds : ImageError(i)

SpecLazy == InitLazy /\ [][NextLazy]_vars

\* ---------------------------------------------------------------- meta rendering
\* One record, drawn from the values the editor can store (a field is absent,
\* empty or filled; custom fields come with or without an id, with labels in
\* any case, padded, empty or reserved), and its render.
Filled == <<"v">>
CustomFieldChoices ==
  { [id |-> Null, label |-> <<"a", "r", "e", "a">>, value |-> Filled],
    [id |-> <<"a">>, label |-> TEAM, value |-> Filled],
    [id |-> Null, label |-> <<" ", "s", "t", "u", "d", "i", "o", " ">>, value |-> Filled],
    [id |-> <<"a">>, label |-> <<"a", "r", "e", "a">>, value |-> <<>>],
    [id |-> Null, label |-> <<>>, value |-> Filled] }
OrderKeyChoices ==
  { <<"s", "t", "u", "d", "i", "o">>, CustomPrefix \o <<"a">>,
    <<"A", "r", "e", "a">>, <<"y", "e", "a", "r">> }

PlainFields ==
  [ location : {Null, Filled}, duration : {<<>>, Filled},
    program : {Filled}, studio : {<<>>, Filled},
    year : {Null, Filled}, medium : {<<>>}, series : {Null, Filled},
    team : {Null, Filled} ]
WithCustomFields(R) ==
  R \cup {r @@ [custom_fields |-> c] : r \in R, c \in SeqsUpTo(CustomFieldChoices, MaxCustomFields)}
WithFieldOrder(R) ==
  R \cup {r @@ [meta_field_order |-> o] : r \in R, o \in SeqsUpTo(OrderKeyChoices, MaxOrderKeys)}
MetaProjects == WithFieldOrder(WithCustomFields(PlainFields))

InitMeta ==
  /\ projectsData = <<>>
  /\ overlay = TRUE
  /\ search = Unrecorded
  /\ rafOpen = -1
  /\ InitCtl
  /\ thumb = IdleThumb
  /\ hero = IdleHero
  /\ detail = IdleDetail /\ fetches = {} /\ discoveries = {} /\ lang = IdleLang /\ lightbox = NoLightbox
  /\ modelLoader = NoModelSection
  /\ lazy = IdleGallery(FALSE, TRUE, FALSE)
  /\ \E project \in MetaProjects : meta = [IdleMeta EXCEPT !.project = project]

RenderMeta ==
  /\ ~meta.done
  /\ meta' = [meta EXCEPT !.done = TRUE, !.items = metaHTML(meta.project)]
  /\ UNCHANGED <<env, ctl, rafOpen, pendingDefault, img, detail, fetches, discoveries, lazy, lang, lightbox, modelLoader, last>>

NextMeta == RenderMeta

SpecMeta == InitMeta /\ [][NextMeta]_vars

\* ---------------------------------------------------------------- language rendering
\* A page whose records have or lack a description and a translation,
\* followed through opens, navigation, closes and clicks on the toggle.
LangRecords == [description : BOOLEAN, description_ko : BOOLEAN]

InitLang ==
  /\ projectsData \in [1 .. MaxProjects -> LangRecords]
  /\ overlay = TRUE
  /\ search = Unrecorded
  /\ rafOpen = -1
  /\ InitCtl
  /\ thumb = IdleThumb
  /\ hero = IdleHero
  /\ InitDom

\* The listeners' effect on the controller is s; when they rendered record
\* `target`, the description block is replaced.
LangStep(s, didRender, target) ==
  /\ s.focusTimers <= MaxFocusTimers
  /\ Commit(s)
  /\ lang' = IF didRender THEN renderDescription(projectsData[target + 1]) ELSE lang
  /\ UNCHANGED <<env, rafOpen, pendingDefault, img, detail, fetches, discoveries, lazy, meta, lightbox, modelLoader, last>>

LangOpen(index) ==
  LET s0 == Focus(State, GridItemBtn(index))
  IN LangStep(documentClick(gridItemClick(s0, index, TRUE), TRUE),
              overlay /\ Len(projectsData) > 0 /\ HasProject(index), index)

LangNext ==
  /\ ~nextDisabled
  /\ LET s0 == Focus(State, OverlayNavNext)
     IN LangStep(documentClick(goToNextProject(s0), FALSE),
                 s0.currentProjectIndex < Len(projectsData) - 1
                   /\ HasProject(s0.currentProjectIndex + 1),
                 s0.currentProjectIndex + 1)

LangPrev ==
  /\ ~prevDisabled
  /\ LET s0 == Focus(State, OverlayNavPrev)
     IN LangStep(documentClick(goToPrevProject(s0), FALSE),
                 s0.currentProjectIndex > 0 /\ HasProject(s0.currentProjectIndex - 1),
                 s0.currentProjectIndex - 1)

LangClose ==
  LangStep(documentClick(closeOverlay(Focus(State, OverlayClose)), FALSE), FALSE, -1)

\* A click on the EN or the KR button of the rendered toggle.
LangBtnClick(btnLang) ==
  /\ lang.toggle
  /\ isOverlayOpen
  /\ lang' = langBtnClick(lang, btnLang)
  /\ Commit(documentClick(Focus(State, IF btnLang = "en" THEN LangBtnEn ELSE LangBtnKr), FALSE))
  /\ UNCHANGED <<env, rafOpen, pendingDefault, img, detail, fetches, discoveries, lazy, meta, lightbox, modelLoader, last>>

NextLang ==
  \/ \E index \in 0 .. MaxProjects - 1 : LangOpen(index)
  \/ LangNext
  \/ LangPrev
  \/ LangClose
  \/ \E btnLang \in {"en", "kr"} : LangBtnClick(btnLang)

SpecLang == InitLang /\ [][NextLang]_vars

\* ---------------------------------------------------------------- lightbox events
\* A page with the overlay and MaxProjects records, followed through opens,
\* closes, clicks on a rendered image, clicks and wheel steps in the lightbox
\* and key presses, each key press reaching every keydown listener of the
\* document.
InitBox ==
  /\ projectsData = [k \in 1 .. MaxProjects |-> [description_ko |-> FALSE]]
  /\ overlay = TRUE
  /\ search = Unrecorded
  /\ rafOpen = -1
  /\ InitCtl
  /\ thumb = IdleThumb
  /\ hero = IdleHero
  /\ InitDom

BoxStep(op, arg, opened, s0, s, lb) ==
  /\ s.focusTimers <= MaxFocusTimers
  /\ Commit(s)
  /\ Record(op, arg, opened, s0, s)
  /\ lightbox' = lb
  /\ UNCHANGED <<env, rafOpen, pendingDefault, img, detail, fetches, discoveries, lazy, meta, lang, modelLoader>>

BoxOpen(index) ==
  LET s0 == Focus(State, GridItemBtn(index))
      s == documentClick(gridItemClick(s0, index, TRUE), TRUE)
  IN BoxStep("gridClickDirect", index, index, s0, s, lightbox)

BoxCloseClick ==
  LET s0 == Focus(State, OverlayClose)
      s == documentClick(closeOverlay(s0), FALSE)
  IN BoxStep("close", 0, -1, s0, s, lightbox)

\* A click on an image of the rendered detail: the click listeners of the
\* document.
ImageClick ==
  /\ isOverlayOpen
  /\ HasProject(rendered)
  /\ BoxStep("imageClick", -1, -1, State, documentClick(State, FALSE), openLightbox(lightbox))

LightboxClick(onCloseBtn) ==
  /\ lightbox.active
  /\ BoxStep("lightboxClick", -1, -1, State, documentClick(State, FALSE),
             lightboxClick(lightbox, onCloseBtn))

\* handleScrollZoom: a wheel step up raises currentZoom; a step down lowers
\* it, to 1 or to a value still above 1.
Wheel(up) ==
  /\ lightbox.active
  /\ \E zoomed \in BOOLEAN :
       /\ up => zoomed
       /\ ~lightbox.zoomed => (up \/ ~zoomed)
       /\ BoxStep("wheel", -1, -1, State, State, [lightbox EXCEPT !.zoomed = zoomed])

\* A key press: handleKeyDown, bound at init, then handleLightboxKeydown,
\* bound when the lightbox was created.
BoxKeyDown(key) ==
  LET s0 == State
      s == handleKeyDown(s0, key, FALSE)
  IN BoxStep("keydown", KeyArg(key, FALSE), -1, s0, s, handleLightboxKeydown(lightbox, key))

NextBox ==
  \/ \E index \in 0 .. MaxProjects - 1 : BoxOpen(index)
  \/ BoxCloseClick
  \/ ImageClick
  \/ \E onCloseBtn \in BOOLEAN : LightboxClick(onCloseBtn)
  \/ \E up \in BOOLEAN : Wheel(up)
  \/ \E key \in {"Escape", "ArrowLeft", "ArrowRight"} : BoxKeyDown(key)

SpecBox == InitBox /\ [][NextBox]_vars

\* ---------------------------------------------------------------- model loading
\* One render of a model section, with or without IntersectionObserver, for
\* either markup order and every choice of the files the server has,
\* followed through the callbacks it queues. When the timers run, when a
\* load settles and when an image comes near the viewport is the
\* environment's choice; a queued timer runs and a started load settles in
\* the end.
InitModel ==
  /\ projectsData = [k \in 1 .. 1 |-> [description_ko |-> FALSE]]
  /\ overlay = TRUE
  /\ search = Unrecorded
  /\ rafOpen = -1
  /\ InitCtl
  /\ thumb = IdleThumb
  /\ hero = IdleHero
  /\ detail = IdleDetail /\ fetches = {} /\ discoveries = {} /\ meta = IdleMeta
  /\ lazy = NoGallery
  /\ lang = IdleLang /\ lightbox = NoLightbox
  /\ \E hasObserver \in BOOLEAN, modelFirst \in BOOLEAN,
        exists \in [ModelIds -> {"jpg", "webp", "none"}] :
       modelLoader = IdleModel(hasObserver, modelFirst, exists)

ModelStep(m) ==
  /\ modelLoader' = m
  /\ UNCHANGED <<env, ctl, rafOpen, pendingDefault, img, detail, fetches, discoveries, lazy,
                 meta, lang, lightbox, last>>

RenderModel ==
  /\ ~modelLoader.rendered
  /\ ModelStep(renderModelImages(modelLoader))

ModelObserverReport(i) ==
  /\ i \in modelLoader.observed
  /\ ~modelLoader.images[i].hidden
  /\ ~modelLoader.sectionHidden
  /\ ModelStep([takeOver(modelLoader, i, lazyObserverEntry(modelLoader.images[i]), "observer")
                  EXCEPT !.observed = @ \ {i}])

ModelWarmup ==
  /\ modelLoader.warmup
  /\ ModelStep([warmupModelImages(modelLoader, WarmupCount) EXCEPT !.warmup = FALSE])

ModelKickoff ==
  /\ modelLoader.kickoff
  /\ ModelStep([waitForModelImagesCounting(modelLoader) EXCEPT !.kickoff = FALSE])

\* The load of image i settles: a load event when the server has the
\* candidate, an error event otherwise.
ModelImageSettle(i) ==
  /\ modelLoader.images[i].pending
  /\ ModelStep(IF modelLoader.images[i].src = modelLoader.exists[i]
                 THEN modelImageOnLoad(modelLoader, i)
                 ELSE modelImageOnError(modelLoader, i))

NextModel ==
  \/ RenderModel
  \/ \E i \in ModelIds : ModelObserverReport(i)
  \/ ModelWarmup
  \/ ModelKickoff
  \/ \E i \in ModelIds : ModelImageSettle(i)

SpecModel ==
  /\ InitModel /\ [][NextModel]_vars
  /\ WF_vars(ModelWarmup) /\ WF_vars(ModelKickoff)
  /\ \A i \in ModelIds : WF_vars(ModelImageSettle(i))

\* ================================================================ properties
IsCloseEvent(l) == l.op = "close" \/ (l.op = "keydown" /\ l.arg = 0)
IsPrevEvent(l) == l.op = "prev" \/ (l.op = "keydown" /\ l.arg = 1)
IsNextEvent(l) == l.op = "next" \/ (l.op = "keydown" /\ l.arg = 2)
LastIndex == Len(projectsData) - 1

\* C1: whenever the overlay is open, currentProjectIndex is an index of
\* projectsData, 0 .. N-1.
C1_OpenIndexInRange == isOverlayOpen => HasProject(currentProjectIndex)

\* C2: an openProject handed an index outside 0 .. N-1 leaves isOverlayOpen,
\* currentProjectIndex, lastFocusedElement and the rendered content as they were.
C2_OutOfRangeOpenIsNoOp ==
  (last.opened # -1 /\ ~HasProject(last.opened)) =>
    /\ isOverlayOpen = last.pre.isOverlayOpen
    /\ currentProjectIndex = last.pre.currentProjectIndex
    /\ lastFocusedElement = last.pre.lastFocusedElement
    /\ rendered = last.pre.rendered

\* C3: with the overlay open at i, next goes to i+1 below the last index and
\* changes nothing at the last index, prev goes to i-1 above 0 and changes
\* nothing at 0; neither wraps, neither changes isOverlayOpen.
C3_PrevNextClamped ==
  LET pre == last.pre
      i == pre.currentProjectIndex
      Same == /\ currentProjectIndex = i
              /\ rendered = pre.rendered
              /\ lastFocusedElement = pre.lastFocusedElement
              /\ activeElement = pre.activeElement
              /\ prevDisabled = pre.prevDisabled
              /\ nextDisabled = pre.nextDisabled
      Shows(j) == HasProject(j) => rendered = j
  IN pre.isOverlayOpen =>
       /\ IsNextEvent(last) =>
            /\ isOverlayOpen
            /\ IF i < LastIndex
                 THEN currentProjectIndex = i + 1 /\ Shows(i + 1)
                 ELSE i = LastIndex => Same
       /\ IsPrevEvent(last) =>
            /\ isOverlayOpen
            /\ IF i > 0
                 THEN currentProjectIndex = i - 1 /\ Shows(i - 1)
                 ELSE Same

\* C3 witness: ArrowRight pressed with the overlay open on the last of two or
\* more records, and the index stayed.
C3_Witness ==
  /\ last.op = "keydown" /\ last.arg = 2
  /\ last.pre.isOverlayOpen
  /\ LastIndex >= 1
  /\ last.pre.currentProjectIndex = LastIndex
  /\ currentProjectIndex = LastIndex

C5_CloseWhenClosedIsNoOp ==
  (IsCloseEvent(last) /\ ~last.pre.isOverlayOpen) =>
    /\ isOverlayOpen = last.pre.isOverlayOpen
    /\ currentProjectIndex = last.pre.currentProjectIndex
    /\ lastFocusedElement = last.pre.lastFocusedElement
    /\ ariaHidden = last.pre.ariaHidden
    /\ bodyOverlayOpen = last.pre.bodyOverlayOpen
    /\ rendered = last.pre.rendered
    /\ activeElement = last.pre.activeElement

\* C5 witness: the close control was activated on a closed overlay while
\* lastFocusedElement named another element than the focused one.
C5_Witness ==
  /\ last.op = "close"
  /\ ~last.pre.isOverlayOpen
  /\ last.pre.lastFocusedElement[1] = "grid-item-btn"
  /\ last.pre.activeElement # last.pre.lastFocusedElement
  /\ activeElement = last.pre.activeElement

\* C6: while open, Escape closes, ArrowLeft is prev and ArrowRight is next;
\* while closed, the keydown listener changes nothing for Escape, ArrowLeft,
\* ArrowRight, Tab and Shift+Tab and prevents no default.
C6_KeyboardOnlyWhileOpen ==
  LET pre == last.pre
      i == pre.currentProjectIndex
  IN last.op = "keydown" =>
       IF pre.isOverlayOpen
         THEN /\ last.arg = 0 => ~isOverlayOpen /\ ariaHidden = "true" /\ last.prevented
              /\ last.arg = 1 => /\ isOverlayOpen /\ last.prevented
                                 /\ currentProjectIndex = IF i > 0 THEN i - 1 ELSE i
              /\ last.arg = 2 => /\ isOverlayOpen /\ last.prevented
                                 /\ currentProjectIndex = IF i < LastIndex THEN i + 1 ELSE i
         ELSE State = pre /\ ~last.prevented

\* C6 witness: ArrowLeft pressed on a closed overlay whose index was above 0.
C6_Witness ==
  /\ last.op = "keydown" /\ last.arg = 1
  /\ ~last.pre.isOverlayOpen
  /\ last.pre.currentProjectIndex > 0
  /\ currentProjectIndex = last.pre.currentProjectIndex

\* C7: whenever the overlay is open, the focused element is inside the overlay.
C7_FocusInsideWhileOpen == isOverlayOpen => activeElement \in OverlayElements

\* C8: while open, Tab on the last enabled focusable element of the overlay
\* focuses the first, and Shift+Tab on the first focuses the last; a prev or
\* next button that is disabled is not the last.
C8_TabWraps ==
  LET pre == last.pre
      hasLang == HasProject(pre.rendered) /\ ProjectAt(pre.rendered).description_ko
      first == OverlayClose
      final == IF ~pre.nextDisabled THEN OverlayNavNext
               ELSE IF ~pre.prevDisabled THEN OverlayNavPrev
               ELSE IF hasLang THEN LangBtnKr
               ELSE OverlayClose
  IN (last.op = "keydown" /\ pre.isOverlayOpen) =>
       /\ (last.arg = 3 /\ pre.activeElement = final) =>
            activeElement = first /\ last.prevented
       /\ (last.arg = 4 /\ pre.activeElement = first) =>
            activeElement = final /\ last.prevented

\* C8 witness: Tab pressed on the prev button while the next button was
\* disabled, and focus went to the close button.
C8_Witness ==
  /\ last.op = "keydown" /\ last.arg = 3
  /\ last.pre.isOverlayOpen
  /\ last.pre.nextDisabled
  /\ last.pre.activeElement = OverlayNavPrev
  /\ activeElement = OverlayClose

\* First candidate (0-based) of a list of outcomes that loads, -1 if none does.
FirstLoadable(q) ==
  IF \E k \in 1 .. Len(q) : q[k]
    THEN (CHOOSE k \in 1 .. Len(q) : q[k] /\ \A j \in 1 .. (k - 1) : ~q[j]) - 1
    ELSE -1

InListOrder(attempts, failed) ==
  /\ \A j \in 1 .. Len(attempts) : attempts[j] = j - 1
  /\ \A j \in 1 .. (Len(attempts) - 1) : attempts[j] \in failed

\* C9: the candidates of a slot are started in list order, each only after the
\* one before it failed; only the first candidate that loads is ever shown, and
\* the slot ends showing it, or in the placeholder state when none loads.
C9_FallbackInOrder ==
  /\ InListOrder(thumb.attempts, thumb.failed)
  /\ \A k \in thumb.shown : k = FirstLoadable(thumb.urlsToTry)
  /\ (thumb.index >= 0 /\ ~thumb.pending) =>
       /\ thumb.backgroundImage = FirstLoadable(thumb.urlsToTry)
       /\ thumb.placeholder <=> FirstLoadable(thumb.urlsToTry) = -1
  /\ InListOrder(hero.attempts, hero.failed)
  /\ \A k \in hero.shown : k = FirstLoadable(hero.sources)
  /\ (Len(hero.attempts) > 0 /\ ~hero.pending) =>
       /\ hero.src = FirstLoadable(hero.sources)
       /\ hero.placeholder <=> FirstLoadable(hero.sources) = -1

\* C9 witness: [a(fail), b(fail), c(success)] ended showing c, and a hero whose
\* six candidates all fail ended in the placeholder.
C9_Witness ==
  /\ thumb.urlsToTry = <<FALSE, FALSE, TRUE>>
  /\ ~thumb.pending
  /\ thumb.backgroundImage = 2
  /\ thumb.shown = {2}
  /\ hero.placeholder
  /\ Len(hero.attempts) = HeroCandidates

Disarmed == armedGridIndex = -1 /\ armedClass = {} /\ armTimers = {}
CanOpen == overlay /\ Len(projectsData) > 0

\* The four parts of C11, for pages on which `pages` holds: in arm-then-open
\* mode a click on a tile that is not the armed one arms it (and starts its
\* timer) without opening; a click on the armed tile opens the overlay at that
\* tile's index and disarms it; a click outside every tile disarms; and after
\* the auto-disarm timer of a tile has fired, the next click on that tile arms
\* it again and opens nothing.
ArmThenOpen(pages) ==
  LET pre == last.pre
      i == last.arg
      NotOpened == /\ isOverlayOpen = pre.isOverlayOpen
                   /\ currentProjectIndex = pre.currentProjectIndex
                   /\ rendered = pre.rendered
      Armed == armedGridIndex = i /\ armedClass = {i} /\ armTimers = {i}
  IN pages =>
       /\ last.op = "gridClick" =>
            IF pre.armedGridIndex = i
              THEN Disarmed /\ isOverlayOpen /\ currentProjectIndex = i
              ELSE Armed /\ NotOpened
       /\ last.op \in {"documentClick", "footerClick", "close", "prev", "next"} => Disarmed
       /\ last.op = "armTimer" => Disarmed
       /\ (last.op = "gridClick" /\ last.afterArmTimer = i) => Armed /\ NotOpened

\* C11 as stated: arm-then-open mode behaves so on every page.
C11_ArmThenOpenAsStated == ArmThenOpen(TRUE)

\* C11 amended: arm-then-open mode behaves so on a page that has the overlay
\* and a non-empty project list.
C11_ArmThenOpen == ArmThenOpen(CanOpen)

\* C11 witness: tile 0 was armed, its timer fired, and the next click on
\* tile 0 in arm-then-open mode armed it again with the overlay still closed.
C11_Witness ==
  /\ last.op = "gridClick" /\ last.arg = 0
  /\ last.afterArmTimer = 0
  /\ CanOpen
  /\ armedGridIndex = 0
  /\ 0 \in armTimers
  /\ ~isOverlayOpen

\* C12 as stated: Enter or Space on tile i opens the overlay at index i at
\* once, whatever the mode and whichever tile is armed, and leaves no tile armed.
C12_KeyboardOpensAsStated ==
  last.op = "gridKey" => Disarmed /\ isOverlayOpen /\ currentProjectIndex = last.arg

\* C12 amended: Enter or Space on tile i leaves no tile armed on every page,
\* and on a page that has the overlay and a non-empty project list it opens
\* the overlay at index i at once, whatever the mode and the armed tile.
C12_KeyboardOpensAtOnce ==
  last.op = "gridKey" =>
    /\ Disarmed
    /\ CanOpen => isOverlayOpen /\ currentProjectIndex = last.arg

\* C12 witness: Enter on tile 1 while tile 0 was armed opened the overlay at 1.
C12_Witness ==
  /\ last.op = "gridKey" /\ last.arg = 1
  /\ last.pre.armedGridIndex = 0
  /\ isOverlayOpen
  /\ currentProjectIndex = 1
  /\ armedGridIndex = -1

\* C14: with the empty list a failed parse leaves, every handler is bound and
\* none of them (tile clicks and keys, footer clicks, the deep link, prev/next,
\* key presses) ever opens the overlay or changes isOverlayOpen or
\* currentProjectIndex; nothing is rendered and no open is queued.
C14_EmptyListNeverOpens ==
  Len(projectsData) = 0 =>
    /\ ~isOverlayOpen
    /\ currentProjectIndex = 0
    /\ rendered = -1
    /\ ariaHidden = "unset"
    /\ ~bodyOverlayOpen
    /\ rafOpen = -1

\* C14 witness: on a page with the overlay and the empty list, the armed tile
\* was clicked again and the overlay is still closed.
C14_Witness ==
  /\ Len(projectsData) = 0
  /\ overlay
  /\ last.op = "gridClick"
  /\ last.pre.armedGridIndex = last.arg
  /\ ~isOverlayOpen

\* C15: a callback of an earlier render that arrives after the overlay has
\* gone on to another project leaves the displayed content alone: every
\* caption on a displayed image comes from the displayed project's caption
\* map, and every slide in the displayed gallery is a slide of the displayed
\* project.
C15_StaleCallbacksHarmless ==
  /\ detail.subCaption \in {-1, detail.project}
  /\ \A k \in 1 .. Len(detail.slides) :
       /\ detail.slides[k].project = detail.project
       /\ detail.slides[k].caption \in {-1, detail.project}

\* C16: while the overlay is open, what it displays is the rendering of the
\* record at currentProjectIndex, and after an open that index is the index
\* the open was called with: no earlier render stays displayed.
C16_DisplaysCurrentRecord ==
  isOverlayOpen =>
    /\ rendered = currentProjectIndex
    /\ last.opened # -1 => currentProjectIndex = last.opened

\* C17: the discovery of a render probes 21, 22, ... in increasing order from
\* just past the initial slides, appends one image per successful probe in
\* that order, issues no probe after a failed one, and none once the
\* container has left the document.
C17_DiscoveryInOrder ==
  \A t \in discoveries :
    /\ \A j \in 1 .. Len(t.probed) : t.probed[j] = InitialSlides + j
    /\ \A j \in 1 .. Len(t.results) : ~t.results[j] => (j = Len(t.probed) /\ ~t.running)
    /\ Len(t.appended) <= Len(t.results)
    /\ \A j \in 1 .. Len(t.appended) : t.appended[j] = t.probed[j] /\ t.results[j]
    /\ Len(t.probed) <= Len(t.appended) + 1
    /\ t.running <=> Len(t.probed) = Len(t.results) + 1

\* The normalization as the claim words it, character by character: a letter
\* becomes its lower case, a digit stays, '&' becomes "and", any other
\* character goes.
RECURSIVE NormalizedKey(_)
NormalizedKey(str) ==
  IF str = <<>> THEN <<>>
  ELSE LET c == Head(str)
       IN (CASE c \in {"a", "A"} -> <<"a">>
             [] c \in {"d", "D"} -> <<"d">>
             [] c \in {"n", "N"} -> <<"n">>
             [] c \in Digits -> <<c>>
             [] c = "&" -> <<"a", "n", "d">>
             [] OTHER -> <<>>)
          \o NormalizedKey(Tail(str))

\* Record k (1-based) has a key field whose normalization is `key`.
KeyMatches(k, key) ==
  \E f \in 1 .. Len(KeyFields) :
    LET value == Field(projectsData[k], KeyFields[f])
    IN value # Null /\ NormalizedKey(value) = key

\* What the page shows once the load is over, given whether the query
\* matches, i.e. picks a record.
LoadOutcome(matches) ==
  LET key == NormalizedKey(search.project)
      first == CHOOSE k \in 1 .. Len(projectsData) :
                 KeyMatches(k, key) /\ \A j \in 1 .. (k - 1) : ~KeyMatches(j, key)
  IN (Len(projectsData) > 0 /\ rafOpen = -1) =>
       IF matches THEN isOverlayOpen /\ currentProjectIndex = first - 1
       ELSE IF search.autopopup = <<"1">> THEN isOverlayOpen /\ currentProjectIndex = 0
       ELSE ~isOverlayOpen

\* C13 as stated: on a page with the overlay and a non-empty list, a project
\* value whose normalization equals that of the slug, display_title, title or
\* index of some record opens the first such record; with no such record (or
\* no project value) autopopup=1 opens index 0, and anything else leaves the
\* overlay closed.
C13_DeepLinkAsStated ==
  LoadOutcome(/\ search.project # Null
              /\ \E k \in 1 .. Len(projectsData) :
                   KeyMatches(k, NormalizedKey(search.project)))

\* C13 amended: the same, for a project value whose normalization is not
\* empty; a value that normalizes to the empty string picks no record.
C13_DeepLinkNonEmptyKey ==
  LoadOutcome(/\ search.project # Null
              /\ NormalizedKey(search.project) # <<>>
              /\ \E k \in 1 .. Len(projectsData) :
                   KeyMatches(k, NormalizedKey(search.project)))

\* C13 witness: ?project=A- over records keyed "&" and "a" opened the second.
C13_Witness ==
  /\ search = [project |-> <<"A", "-">>, autopopup |-> Null]
  /\ Len(projectsData) = 2
  /\ Field(projectsData[1], "slug") = <<"&">>
  /\ Field(projectsData[2], "slug") = <<"a">>
  /\ last.op = "deepLink"
  /\ isOverlayOpen
  /\ currentProjectIndex = 1

\* C18: without IntersectionObserver, rendering a project starts the load of
\* every lazy detail image at once, and an image ends loaded, or hidden only
\* after both its candidates (.jpg, then .webp) failed to load.
C18_NoObserverLoadsAll ==
  (lazy.rendered /\ ~lazy.hasObserver) =>
    \A i \in ImageIds :
      /\ lazy.images[i].src # ""
      /\ lazy.images[i].hidden => {"jpg", "webp"} \subseteq lazy.images[i].failed

\* C19 as stated: once a project is rendered, a lazy image outside the warm
\* set (the first WarmupCount lazy images) has no load started before the
\* observer reports it.
InWarmSet(i) == lazyPosition(i, lazy.modelFirst) <= WarmupCount
StartedByObserverOnly(i) == lazy.images[i].src # "" => lazy.images[i].by = "observer"

C19_OnlyWarmSetEagerAsStated ==
  lazy.rendered => \A i \in ImageIds : ~InWarmSet(i) => StartedByObserverOnly(i)

\* C19, amended: on a viewport of at most 768px with IntersectionObserver, a
\* lazy image of the markup that is neither among the first 4 lazy images,
\* nor a model image, nor among the first 4 slide images has no load started
\* before the observer reports it.
InEagerSet(i) ==
  \/ InWarmSet(i)
  \/ DetailImages[i].section = "model"
  \/ DetailImages[i].section = "slide" /\ DetailImages[i].n <= 4

C19_OnlyEagerSetBeforeObserver ==
  (lazy.rendered /\ lazy.mobile /\ lazy.hasObserver) =>
    \A i \in ImageIds : ~InEagerSet(i) => StartedByObserverOnly(i)

C19_Witness ==
  /\ lazy.rendered /\ lazy.mobile /\ lazy.hasObserver
  /\ \E i, j, k \in ImageIds :
       /\ ~InEagerSet(i) /\ lazy.images[i].by = "observer"
       /\ ~InEagerSet(j) /\ lazy.images[j].src = ""
       /\ InEagerSet(k) /\ lazy.images[k].by = "warmup" /\ lazy.images[k].lazyLoaded

\* C20 as stated: the meta items of a record are its non-empty LOCATION,
\* DURATION, PROGRAM, STUDIO, then YEAR, MEDIUM, SERIES, then its custom fields
\* with a non-empty value in declared order, each once.
BaseItems(project) ==
  plainItem(project, "location", baseMetaFields[1].label)
  \o plainItem(project, "duration", baseMetaFields[2].label)
  \o plainItem(project, "program", baseMetaFields[3].label)
  \o plainItem(project, "studio", baseMetaFields[4].label)
DatedItems(project) ==
  plainItem(project, "year", YEAR) \o plainItem(project, "medium", MEDIUM)
  \o plainItem(project, "series", SERIES)
DeclaredCustomFields(project) ==
  IF "custom_fields" \in DOMAIN project THEN project.custom_fields ELSE <<>>
HasValue(field) == field.value # <<>> /\ field.value # Null
ItemsOf(fields) == [k \in 1 .. Len(fields) |-> [label |-> fields[k].label, value |-> fields[k].value]]

C20_MetaOrderAsStated ==
  meta.done =>
    meta.items = BaseItems(meta.project) \o DatedItems(meta.project)
                 \o ItemsOf(SelectSeq(DeclaredCustomFields(meta.project), HasValue))

\* C20, amended: for a record without meta_field_order whose custom fields do
\* not share an id, the meta items are its non-empty LOCATION, DURATION,
\* PROGRAM, STUDIO, then its custom fields in declared order (those with a
\* non-empty label and value whose label is not one of the four base labels),
\* then TEAM from a non-empty team unless a custom field is labelled TEAM,
\* then its non-empty YEAR, MEDIUM, SERIES, each once.
IsBaseLabel(label) ==
  \E k \in 1 .. Len(baseMetaFields) : toUpperCase(trim(label)) = baseMetaFields[k].label
IsRenderedCustom(field) ==
  field.label # <<>> /\ field.label # Null /\ HasValue(field) /\ ~IsBaseLabel(field.label)
RenderedCustomFields(project) == SelectSeq(DeclaredCustomFields(project), IsRenderedCustom)
TeamItem(project) ==
  IF project.team # Null /\ project.team # <<>>
     /\ \A k \in 1 .. Len(RenderedCustomFields(project)) :
          toUpperCase(trim(RenderedCustomFields(project)[k].label)) # TEAM
    THEN << [label |-> TEAM, value |-> project.team] >>
    ELSE <<>>
DistinctIds(project) ==
  \A i, j \in 1 .. Len(customMetaFields(project)) :
    i # j => customMetaFields(project)[i].token # customMetaFields(project)[j].token

C20_MetaOrderCustomBeforeYear ==
  (meta.done /\ "meta_field_order" \notin DOMAIN meta.project /\ DistinctIds(meta.project)) =>
    meta.items = BaseItems(meta.project)
                 \o ItemsOf(RenderedCustomFields(meta.project))
                 \o TeamItem(meta.project)
                 \o DatedItems(meta.project)

C20_Witness ==
  /\ meta.done
  /\ "meta_field_order" \notin DOMAIN meta.project
  /\ DistinctIds(meta.project)
  /\ Len(DeclaredCustomFields(meta.project)) = 2
  /\ Len(RenderedCustomFields(meta.project)) = 1
  /\ TeamItem(meta.project) # <<>>
  /\ meta.project.year = Filled /\ meta.project.location = Filled
  /\ meta.project.studio = <<>>
  /\ Len(meta.items) = 6

\* C22: after the initial parse no operation changes the project sequence;
\* a discovered slide goes into the gallery of a render and nowhere else.
C22_ProjectsImmutable ==
  [][ /\ projectsData' = projectsData
      /\ detail'.slides # detail.slides =>
           /\ detail.gen > 0
           /\ detail'.gen = detail.gen \/ detail'.slides = <<>> ]_vars

C22_Witness ==
  /\ Len(detail.slides) > 0
  /\ isOverlayOpen
  /\ \E t \in discoveries : ~t.running /\ Len(t.appended) > 0

\* C23: once the overlay has been opened, aria-hidden is "false" and the body
\* carries overlay-open exactly when isOverlayOpen, and aria-hidden is "true"
\* and the class is absent exactly when it is not; aria-hidden never returns
\* to the value it had before the first open.
C23_AriaMatchesOpen ==
  /\ [](/\ isOverlayOpen <=> (ariaHidden = "false" /\ bodyOverlayOpen)
        /\ isOverlayOpen <=> (ariaHidden = "false" \/ bodyOverlayOpen)
        /\ (~isOverlayOpen /\ ariaHidden # "unset") => (ariaHidden = "true" /\ ~bodyOverlayOpen))
  /\ [][ (isOverlayOpen \/ ariaHidden # "unset") => ariaHidden' # "unset" ]_vars

C23_Witness ==
  /\ ~isOverlayOpen /\ ariaHidden = "true" /\ ~bodyOverlayOpen
  /\ last.op = "close"

\* C27: a click on the overlay's prev / next control while the overlay is
\* closed leaves isOverlayOpen and currentProjectIndex as they were and
\* renders nothing.
C27_NavWhileClosedIsNoOp ==
  (last.op \in {"prev", "next"} /\ ~last.pre.isOverlayOpen) =>
    /\ isOverlayOpen = last.pre.isOverlayOpen
    /\ currentProjectIndex = last.pre.currentProjectIndex
    /\ rendered = last.pre.rendered

\* C29: an auto-disarm timer is pending exactly when a tile is armed, the
\* armed marker is on exactly that tile, and an open leaves nothing armed and
\* no timer pending.
C29_TimerIffArmed ==
  /\ armedGridResetTimer # -1 <=> armedGridIndex >= 0
  /\ armTimers = (IF armedGridIndex >= 0 THEN {armedGridResetTimer} ELSE {})
  /\ armedClass = (IF armedGridIndex >= 0 THEN {armedGridIndex} ELSE {})
  /\ (last.opened # -1 \/ last.op \in {"gridKey", "gridClickDirect", "footerClick", "deepLink"}) =>
       (armedGridIndex = -1 /\ armedGridResetTimer = -1 /\ armTimers = {} /\ armedClass = {})

C29_Witness ==
  /\ last.op = "gridClick" /\ last.opened # -1
  /\ last.pre.armedGridIndex = last.arg /\ last.pre.armedGridResetTimer # -1
  /\ armedGridIndex = -1 /\ armTimers = {}

\* C25: a focus timer of openProject that fires after the overlay was closed
\* moves no focus: the active element stays the one close restored.
C25_LateFocusTimerHarmless ==
  (last.op = "focusTimer" /\ ~last.pre.isOverlayOpen) =>
    activeElement = last.pre.activeElement

\* C24: a render is complete (content replaced, controller state updated)
\* while its caption fetch is still in flight; a fetch that fails resolves to
\* the empty map, and its callback attaches no caption and leaves the
\* content and the controller state as they were; the slides its discovery
\* appends carry no caption.
NoCaptions == [sub |-> FALSE, slide |-> FALSE]

C24_CaptionFailureSilent ==
  [][ /\ detail'.gen > detail.gen =>
           /\ detail'.project = rendered' /\ currentProjectIndex' = rendered'
           /\ \E f \in fetches' \ fetches : f.gen = detail'.gen /\ f.project = rendered'
      /\ (\E f \in fetches \ fetches', t \in discoveries' \ discoveries :
            t.gen = f.gen /\ t.captions = NoCaptions) =>
           /\ detail' = detail
           /\ UNCHANGED ctl
      /\ \A t \in discoveries :
           (t.captions = NoCaptions /\ Len(detail'.slides) > Len(detail.slides)
            /\ discoveries' = (discoveries \ {t}) \cup {probeResolved(t, TRUE, TRUE)}) =>
             detail'.slides[Len(detail'.slides)].caption = -1 ]_vars

C24_Witness ==
  /\ isOverlayOpen
  /\ detail.subCaption = -1
  /\ \E t \in discoveries :
       /\ t.captions = NoCaptions /\ t.gen = detail.gen
       /\ Len(t.appended) > 0 /\ ~t.running
  /\ \A k \in 1 .. Len(detail.slides) : detail.slides[k].caption = -1
  /\ Len(detail.slides) > 0

\* C21: while a record with both a description and a translation is rendered,
\* the description in the primary language is visible whatever toggle buttons
\* were clicked; the translation is hidden while EN is the active button and
\* shown while KR is, and a render no button of which was clicked yet has the
\* translation hidden and EN active.
Bilingual ==
  /\ HasProject(rendered)
  /\ projectsData[rendered + 1].description
  /\ projectsData[rendered + 1].description_ko
C21_ToggleKeepsPrimary ==
  Bilingual =>
    /\ lang.toggle
    /\ lang.descEn = ""
    /\ lang.active \in {"en", "kr"}
    /\ lang.active = "en" => lang.descKo = "none"
    /\ lang.active = "kr" => lang.descKo = ""
    /\ lang.fresh => (lang.active = "en" /\ lang.descKo = "none")
C21_Witness ==
  Bilingual /\ isOverlayOpen /\ ~lang.fresh /\ lang.active = "kr" /\ lang.descKo = "" /\ lang.descEn = ""

\* C28: a key press made while the lightbox is active over the open overlay
\* reaches both key listeners: Escape leaves the lightbox inactive and the
\* overlay closed, ArrowLeft / ArrowRight move the overlay to the neighbouring
\* record, when there is one, and leave the lightbox active.
C28_EscapeClosesBoth ==
  [][ (lightbox.active /\ isOverlayOpen) =>
        /\ BoxKeyDown("Escape") => (~lightbox'.active /\ ~isOverlayOpen')
        /\ (BoxKeyDown("ArrowLeft") /\ currentProjectIndex > 0) =>
             /\ currentProjectIndex' = currentProjectIndex - 1
             /\ rendered' = currentProjectIndex - 1
             /\ isOverlayOpen' /\ lightbox'.active
        /\ (BoxKeyDown("ArrowRight") /\ currentProjectIndex < Len(projectsData) - 1) =>
             /\ currentProjectIndex' = currentProjectIndex + 1
             /\ rendered' = currentProjectIndex + 1
             /\ isOverlayOpen' /\ lightbox'.active ]_vars
C28_Witness ==
  /\ last.op = "keydown" /\ last.arg = 0 /\ last.pre.isOverlayOpen
  /\ ~isOverlayOpen /\ ~lightbox.active /\ lightbox.closedBy = "Escape"

\* C26: with IntersectionObserver, whichever of the observer callback, the
\* idle warm-up, the slide loader and the model-image loader act on a lazy
\* image and in whatever order, an image whose .jpg failed and whose .webp did
\* not fail is never hidden.
C26_WebpFallbackSurvives ==
  lazy.hasObserver =>
  \A i \in ImageIds :
    ("jpg" \in lazy.images[i].failed /\ "webp" \notin lazy.images[i].failed) =>
      ~lazy.images[i].hidden

\* C30: once waitForModelImages has run for a render, it comes to count every
\* model image as loaded or failed and adjusts the grid; from then on the
\* visible model figures are as many as the largest multiple of 3 not above
\* the number of loaded model images, and the section is hidden when that is 0.
LoadedModelImages == {i \in ModelIds : modelLoader.images[i].lazyLoaded}
ShowCount == (Cardinality(LoadedModelImages) \div 3) * 3
GridAdjusted ==
  /\ modelLoader.adjusted = "yes"
  /\ modelLoader.loadedCount + modelLoader.errorCount = MaxModelImages
  /\ VisibleUpTo(modelLoader.images, MaxModelImages) = ShowCount
  /\ ShowCount = 0 => modelLoader.sectionHidden
C30_LoaderAdjustsGrid == modelLoader.started ~> []GridAdjusted

====
